---- MODULE Spec2Model ----
(***************************************************************************)
(* Model of the reporting scripts of the repository: the utilization       *)
(* report (Prompt1.py), the contribution-margin chart report (Prompt2.py), *)
(* the project ranking (Prompt3.py), the high-cost task ranking            *)
(* (Prompt4.py), the IQR outlier report (Prompt5.py), the threshold        *)
(* outlier report (Prompt6.py), the service-and-role performance report    *)
(* (Prompt7.py), the below-median analysis (Prompt8.py) and the prompt     *)
(* handling of the GUI wrapper (UI-Prototype.py).                          *)
(*                                                                         *)
(* Every script reads a table of rows and computes a report from it.  A    *)
(* script is modelled by the rows it has read so far (one read action per  *)
(* row of the input file) and by one action for the computation it runs    *)
(* on the table.  One behaviour is one run of one script: script names it, *)
(* data is the table read, status the position of the run and results what *)
(* the run has computed.                                                   *)
(*                                                                         *)
(* Numbers.  The measures of a row are integers.  A derived metric is a    *)
(* float of the program; it is modelled as an exact fraction n/d in lowest *)
(* terms with d > 0, or as one of the IEEE specials the vectorised         *)
(* division of pandas produces: x/0 is +inf or -inf, 0/0 is NaN.  Python's *)
(* None in a numeric column is NaN, as pandas stores it.  Rounding of the  *)
(* binary floating point is not modelled.                                  *)
(***************************************************************************)
EXTENDS Integers, Sequences, FiniteSets, TLC

VARIABLES
    script, data, status, results

vars == <<script, data, status, results>>

(***************************************************************************)
(* Floats                                                                  *)
(***************************************************************************)
AbsInt(x) == IF x < 0 THEN -x ELSE x

SignInt(x) == IF x < 0 THEN -1 ELSE IF x = 0 THEN 0 ELSE 1

RECURSIVE GCD(_, _)
GCD(a, b) == IF b = 0 THEN a ELSE GCD(b, a % b)

\* The float n/d.  d = 0 gives the IEEE result of a division by zero:
\* +inf (n > 0), -inf (n < 0) or NaN (n = 0).
Num(n, d) ==
    IF d = 0
    THEN [tag |-> IF n = 0 THEN "nan" ELSE "inf", n |-> SignInt(n), d |-> 0]
    ELSE LET g == GCD(AbsInt(n), AbsInt(d))
             s == SignInt(d)
         IN  [tag |-> "num", n |-> (s * n) \div g, d |-> (s * d) \div g]

NaN == Num(0, 0)

PosInf == Num(1, 0)

NegInf == Num(-1, 0)

IsNull(x) == x.tag = "nan"

IsNum(x) == x.tag = "num"

FNeg(x) == [x EXCEPT !.n = -x.n]

\* x * y of two floats (inf * 0 is NaN).
FMul(x, y) ==
    IF IsNull(x) \/ IsNull(y) THEN NaN
    ELSE IF IsNum(x) /\ IsNum(y) THEN Num(x.n * y.n, x.d * y.d)
    ELSE Num(SignInt(x.n) * SignInt(y.n), 0)

\* x / y of two floats, as numpy divides (no exception).
FDiv(x, y) ==
    IF IsNull(x) \/ IsNull(y) THEN NaN
    ELSE IF IsNum(x) /\ IsNum(y) THEN Num(x.n * y.d, x.d * y.n)
    ELSE IF IsNum(x) THEN Num(0, 1)
    ELSE IF IsNum(y) THEN Num(x.n * (IF y.n < 0 THEN -1 ELSE 1), 0)
    ELSE NaN

\* x - y of two floats (inf - inf is NaN).
FSub(x, y) ==
    IF IsNull(x) \/ IsNull(y) THEN NaN
    ELSE IF IsNum(x) /\ IsNum(y) THEN Num(x.n * y.d - y.n * x.d, x.d * y.d)
    ELSE IF IsNum(y) THEN x
    ELSE IF IsNum(x) THEN FNeg(y)
    ELSE IF x.n = y.n THEN NaN ELSE x

FAbs(x) == [x EXCEPT !.n = AbsInt(x.n)]

\* x < y; every comparison with NaN is False.
FLess(x, y) ==
    IF IsNull(x) \/ IsNull(y) THEN FALSE
    ELSE IF IsNum(x) /\ IsNum(y) THEN x.n * y.d < y.n * x.d
    ELSE IF IsNum(x) THEN y.n > 0
    ELSE IF IsNum(y) THEN x.n < 0
    ELSE x.n < y.n

(***************************************************************************)
(* Tables                                                                  *)
(***************************************************************************)
\* Series.sum(): the sum of column col over the rows of table t.
RECURSIVE SumCol(_, _)
SumCol(t, col) ==
    IF t = <<>> THEN 0 ELSE Head(t)[col] + SumCol(Tail(t), col)

\* Series.unique(), as a set.
Unique(t, col) == {t[i][col] : i \in DOMAIN t}

\* t[t[col] == v]
Where(t, col, v) == SelectSeq(t, LAMBDA r : r[col] = v)

(***************************************************************************)
(* Utilization report (Prompt1.py)                                         *)
(***************************************************************************)
MaxRows1 == 2

\* Years of the rows of the input files.
Years == {2023, 2024}

\* (year, service line) of the rows of the input file.
Groups1 == {<<2023, 1>>, <<2023, 2>>, <<2024, 1>>}

\* Months of the input file: January, April and July lie in three quarters
\* and two half-years; 0 and 13 are months the calendar does not have.
Months1 == {0, 1, 4, 7, 13}

Hours1 ==
    { [BH |-> 1, TH |-> 2, UH |-> 2], [BH |-> 0, TH |-> 1, UH |-> 1],
      [BH |-> 1, TH |-> 0, UH |-> 1], [BH |-> 1, TH |-> -2, UH |-> -1] }

Rows1 ==
    { [Year |-> g[1], Service |-> g[2], Month |-> m,
       BH |-> h.BH, TH |-> h.TH, UH |-> h.UH] :
         g \in Groups1, m \in Months1, h \in Hours1 }

get_quarter(month) ==
    IF month \in {1, 2, 3} THEN "Q1"
    ELSE IF month \in {4, 5, 6} THEN "Q2"
    ELSE IF month \in {7, 8, 9} THEN "Q3"
    ELSE IF month \in {10, 11, 12} THEN "Q4"
    ELSE "None"

\* get_half_year with June counted in the second half.
get_half_year_JuneInH2(month) == IF month < 6 THEN "H1" ELSE "H2"

get_half_year(month) == IF month <= 6 THEN "H1" ELSE "H2"

\* calendar.month_name[month]: the list has the entries 0..12 ('' at 0), and
\* a negative index counts from its end.
MonthNameRaises(month) == month \notin -13..12

\* Rate1 with the guard "!= 0" in place of "> 0".
Rate1_NonZeroGuard(numerator, total_hours) ==
    IF total_hours # 0 THEN Num(numerator * 100, total_hours) ELSE Num(0, 1)

\* (numerator / total_hours * 100) if total_hours > 0 else 0
Rate1(numerator, total_hours) ==
    IF total_hours > 0 THEN Num(numerator * 100, total_hours) ELSE Num(0, 1)

\* The mean of the per-row rates of column col over the rows of t.
RECURSIVE SumRates1(_, _)
SumRates1(t, col) ==
    IF t = <<>> THEN Num(0, 1)
    ELSE FSub(Rate1(Head(t)[col], Head(t).TH), FNeg(SumRates1(Tail(t), col)))

\* Bucket1 with each rate computed as the average of the rates of the rows.
Bucket1_MeanOfRatios(gran, year, service, period, month, t) ==
    [gran |-> gran, Year |-> year, Service |-> service, period |-> period,
     Month |-> month,
     BH |-> SumCol(t, "BH"), TH |-> SumCol(t, "TH"), UH |-> SumCol(t, "UH"),
     billing_rate |->
         IF t = <<>> THEN Num(0, 1) ELSE FDiv(SumRates1(t, "BH"), Num(Len(t), 1)),
     utilization_rate |->
         IF t = <<>> THEN Num(0, 1) ELSE FDiv(SumRates1(t, "UH"), Num(Len(t), 1))]

\* The sums and the two rates of one bucket of the report.  period is the
\* label of the bucket ("Year", a quarter, a half-year or "Month") and month
\* the month of a monthly bucket (0 for the others).
Bucket1(gran, year, service, period, month, t) ==
    LET total_billable_hours == SumCol(t, "BH")
        total_hours == SumCol(t, "TH")
        utilized_hours == SumCol(t, "UH")
    IN  [gran |-> gran, Year |-> year, Service |-> service, period |-> period,
         Month |-> month,
         BH |-> total_billable_hours, TH |-> total_hours, UH |-> utilized_hours,
         billing_rate |-> Rate1(total_billable_hours, total_hours),
         utilization_rate |-> Rate1(utilized_hours, total_hours)]

\* t[t['Month'].apply(period_func) == period]; a comparison with None is
\* False for every row.
PeriodRows(t, gran, period) ==
    IF period = "None" THEN <<>>
    ELSE SelectSeq(t, LAMBDA r :
             (IF gran = "Quarter" THEN get_quarter(r.Month)
              ELSE get_half_year(r.Month)) = period)

\* The buckets of one (year, service) pass of the loop.
ServiceBuckets(t, year) ==
    UNION { LET service_df == Where(t, "Service", service)
            IN  {Bucket1("Year", year, service, "Year", 0, service_df)}
                \cup {Bucket1("Quarter", year, service, p, 0,
                              PeriodRows(service_df, "Quarter", p)) :
                        p \in {get_quarter(m) : m \in Unique(service_df, "Month")}}
                \cup {Bucket1("Half-Year", year, service, p, 0,
                              PeriodRows(service_df, "Half-Year", p)) :
                        p \in {get_half_year(m) : m \in Unique(service_df, "Month")}}
                \cup {Bucket1("Month", year, service, "Month", m,
                              Where(service_df, "Month", m)) :
                        m \in Unique(service_df, "Month")}
          : service \in Unique(t, "Service") }

AllBuckets1(t) ==
    UNION {ServiceBuckets(Where(t, "Year", year), year) : year \in Unique(t, "Year")}

\* The state of a script before it has read its input file.
Start(scripts) ==
    /\ script \in scripts
    /\ data = <<>>
    /\ status = "reading"
    /\ results = {}

\* pd.read_excel: one more row of the input file.
ReadExcel1 ==
    /\ script = "Prompt1"
    /\ status = "reading"
    /\ Len(data) < MaxRows1
    /\ \E r \in Rows1 : data' = Append(data, r)
    /\ UNCHANGED <<script, status, results>>

\* The loops of the script over the table.  calendar.month_name raises for a
\* month outside 0..12 and the script ends before it writes a report.
RunUtilization ==
    /\ script = "Prompt1"
    /\ status = "reading"
    /\ IF \E i \in DOMAIN data : MonthNameRaises(data[i].Month)
       THEN /\ status' = "raised"
            /\ results' = {}
       ELSE /\ status' = "saved"
            /\ results' = AllBuckets1(data)
    /\ UNCHANGED <<script, data>>

NextUtil == ReadExcel1 \/ RunUtilization

SpecUtil == Start({"Prompt1"}) /\ [][NextUtil]_vars

(***************************************************************************)
(* The utilization report: claims                                          *)
(***************************************************************************)
Saved1 == script = "Prompt1" /\ status = "saved"

\* C7 as stated: in every bucket of the utilization report (year, quarter,
\* half-year, month) both rates are numerator/total_hours x 100 when the
\* summed total hours are non-zero, and 0 when they are 0.
C7_RateWhenNonZero ==
    Saved1 =>
        \A b \in results :
            /\ b.TH # 0 => /\ b.billing_rate = Num(b.BH * 100, b.TH)
                           /\ b.utilization_rate = Num(b.UH * 100, b.TH)
            /\ b.TH = 0 => /\ b.billing_rate = Num(0, 1)
                           /\ b.utilization_rate = Num(0, 1)

\* C7 amended: both rates are numerator/total_hours x 100 when the summed
\* total hours are positive, and 0 when they are zero or negative.
C7_RateWhenPositive ==
    Saved1 =>
        \A b \in results :
            /\ b.TH > 0 => /\ b.billing_rate = Num(b.BH * 100, b.TH)
                           /\ b.utilization_rate = Num(b.UH * 100, b.TH)
            /\ b.TH <= 0 => /\ b.billing_rate = Num(0, 1)
                            /\ b.utilization_rate = Num(0, 1)

\* A saved report with a bucket of positive hours and a non-zero rate, and a
\* monthly bucket of negative hours whose billable hours are not 0.
C7_Witness ==
    /\ Saved1
    /\ \E b \in results : b.TH > 0 /\ b.billing_rate # Num(0, 1)
    /\ \E b \in results : b.gran = "Month" /\ b.TH < 0 /\ b.BH # 0

(***************************************************************************)
(* The period functions of Prompt1.py on a Month column                    *)
(* (service_df['Month'].apply(period_func))                                *)
(***************************************************************************)
MaxMonths == 2

MonthValues == 0..13

\* One more value of the Month column.
ReadMonth ==
    /\ script = "periods"
    /\ status = "reading"
    /\ Len(data) < MaxMonths
    /\ \E m \in MonthValues : data' = Append(data, m)
    /\ UNCHANGED <<script, status, results>>

\* Series.apply(get_quarter) and Series.apply(get_half_year)
ApplyPeriods ==
    /\ script = "periods"
    /\ status = "reading"
    /\ status' = "applied"
    /\ results' = [Quarter |-> [i \in DOMAIN data |-> get_quarter(data[i])],
                   HalfYear |-> [i \in DOMAIN data |-> get_half_year(data[i])]]
    /\ UNCHANGED <<script, data>>

NextPeriods == ReadMonth \/ ApplyPeriods

SpecPeriods == Start({"periods"}) /\ [][NextPeriods]_vars

QuarterTable ==
    <<"Q1", "Q1", "Q1", "Q2", "Q2", "Q2", "Q3", "Q3", "Q3", "Q4", "Q4", "Q4">>

HalfTable ==
    <<"H1", "H1", "H1", "H1", "H1", "H1", "H2", "H2", "H2", "H2", "H2", "H2">>

\* C10: for every month m in 1..12 get_quarter(m) is Q1 for 1-3, Q2 for 4-6,
\* Q3 for 7-9 and Q4 for 10-12, get_half_year(m) is H1 for 1-6 and H2 for
\* 7-12, and the quarters nest in the half-years: a month of Q1 or Q2 is in
\* H1, a month of Q3 or Q4 is in H2.
C10_PeriodMapping ==
    (script = "periods" /\ status = "applied") =>
        \A i \in DOMAIN data :
            data[i] \in 1..12 =>
                /\ results.Quarter[i] = QuarterTable[data[i]]
                /\ results.HalfYear[i] = HalfTable[data[i]]
                /\ results.Quarter[i] \in {"Q1", "Q2"} => results.HalfYear[i] = "H1"
                /\ results.Quarter[i] \in {"Q3", "Q4"} => results.HalfYear[i] = "H2"

\* The functions have been applied to a column holding June and July, the
\* two months on either side of the half-year boundary.
C10_Witness ==
    /\ script = "periods" /\ status = "applied"
    /\ \E i, j \in DOMAIN data :
          /\ data[i] = 6 /\ results.Quarter[i] = "Q2" /\ results.HalfYear[i] = "H1"
          /\ data[j] = 7 /\ results.Quarter[j] = "Q3" /\ results.HalfYear[j] = "H2"

(***************************************************************************)
(* Contribution-margin chart report (Prompt2.py): generate_bar_chart       *)
(***************************************************************************)
MaxRows2 == 2

\* Service names as the input file spells them; "Audit " and "audit" are one
\* name after .str.strip().str.lower().
ServiceNames == {"Audit ", "audit", "tax"}

\* The names in the order groupby sorts them.
NameOrder == <<"Audit ", "audit", "tax">>

StripLower(name) == IF name = "Audit " THEN "audit" ELSE name

\* Revenue, production costs and budget of a row; the contribution margin of
\* the rows of the input file is revenue minus production costs.
Money2 ==
    { [Rev |-> 2, Cost |-> 1, BCM |-> 1, BRev |-> 2],
      [Rev |-> 1, Cost |-> 2, BCM |-> 1, BRev |-> 1],
      [Rev |-> -2, Cost |-> -3, BCM |-> -1, BRev |-> -2],
      [Rev |-> -1, Cost |-> 0, BCM |-> 1, BRev |-> -1],
      [Rev |-> 0, Cost |-> 0, BCM |-> 0, BRev |-> 0],
      [Rev |-> 0, Cost |-> 1, BCM |-> 1, BRev |-> 0],
      [Rev |-> 0, Cost |-> -1, BCM |-> 1, BRev |-> 1] }

Rows2 ==
    { [Service |-> s, CM |-> m.Rev - m.Cost, Rev |-> m.Rev, Cost |-> m.Cost,
       BCM |-> m.BCM, BRev |-> m.BRev] : s \in ServiceNames, m \in Money2 }

\* prev_data: None, an empty frame or a frame of one row.
NoFrame == [given |-> FALSE, rows |-> <<>>]

PrevFrames ==
    {NoFrame, [given |-> TRUE, rows |-> <<>>]}
    \cup { [given |-> TRUE,
            rows |-> <<[Service |-> s, CM |-> m.Rev - m.Cost, Rev |-> m.Rev,
                        Cost |-> m.Cost]>>] :
             s \in {"Audit ", "tax"},
             m \in {[Rev |-> 2, Cost |-> 1], [Rev |-> 1, Cost |-> 1],
                     [Rev |-> -1, Cost |-> 0]} }

\* What the build decides: whether the values of a row handed to apply are
\* Python numbers (a division by zero raises ZeroDivisionError) or numpy
\* numbers (it gives inf or nan), and whether assigning the result of apply
\* on a frame without rows to a column raises or gives an empty column.
Builds == [scalars : {"python", "numpy"}, emptyApply : {"raises", "empty"}]

\* The outcome of a call that raised.
Raised == [tag |-> "raise", n |-> 0, d |-> 0]

\* a / b of two row values.
ScalarDiv(a, b, build) ==
    IF b = 0 /\ build.scalars = "python" THEN Raised ELSE Num(a, b)

\* q * 100, or the exception q stands for.
Times100(q) == IF q = Raised THEN Raised ELSE FMul(q, Num(100, 1))

\* calculate_contribution_margin without the flip for a negative revenue.
calculate_contribution_margin_NoFlip(row, build) ==
    IF row.Rev = 0 /\ row.Cost = 0 THEN Num(0, 1)
    ELSE IF row.Rev = 0 /\ row.Cost > 0 THEN Num(-100, 1)
    ELSE Times100(ScalarDiv(row.CM, row.Rev, build))

\* calculate_contribution_margin with the flip written as -abs(ratio).
calculate_contribution_margin_NegAbs(row, build) ==
    IF row.Rev = 0 /\ row.Cost = 0 THEN Num(0, 1)
    ELSE IF row.Rev = 0 /\ row.Cost > 0 THEN Num(-100, 1)
    ELSE IF row.Rev < 0 THEN FNeg(FAbs(Times100(Num(row.CM, row.Rev))))
    ELSE Times100(ScalarDiv(row.CM, row.Rev, build))

\* calculate_contribution_margin(row).  With a revenue of 0 and negative
\* production costs neither branch of the inner if returns, and the function
\* goes on to the last return.
calculate_contribution_margin(row, build) ==
    LET total_revenue == row.Rev
        production_costs == row.Cost
        last_return == Times100(ScalarDiv(row.CM, total_revenue, build))
    IN  IF total_revenue = 0
        THEN IF production_costs = 0 THEN Num(0, 1)
             ELSE IF production_costs > 0 THEN Num(-100, 1)
             ELSE last_return
        ELSE IF total_revenue < 0
             THEN FNeg(Times100(Num(row.CM, total_revenue)))
             ELSE last_return

\* calculate_budget_contribution_margin without the flip.
calculate_budget_contribution_margin_NoFlip(row) ==
    IF row.BRev # 0 THEN FMul(Num(row.BCM, row.BRev), Num(100, 1)) ELSE Num(0, 1)

\* calculate_budget_contribution_margin(row)
calculate_budget_contribution_margin(row) ==
    LET budget_total_revenue == row.BRev
    IN  IF budget_total_revenue < 0
        THEN FNeg(FMul(Num(row.BCM, budget_total_revenue), Num(100, 1)))
        ELSE IF budget_total_revenue # 0
             THEN FMul(Num(row.BCM, budget_total_revenue), Num(100, 1))
             ELSE Num(0, 1)

\* data.groupby('Service Areas Shortname').agg(sum).reset_index(): one row
\* per name, in the order of the names, with the sums of the columns cols.
GroupByService(t, cols) ==
    LET names == SelectSeq(NameOrder, LAMBDA n : n \in Unique(t, "Service"))
    IN  [i \in DOMAIN names |->
            [c \in cols \cup {"Service"} |->
                IF c = "Service" THEN names[i]
                ELSE SumCol(Where(t, "Service", names[i]), c)]]

\* t with the names of its Service column stripped and lower-cased.
Normalised(t) ==
    [i \in DOMAIN t |-> [t[i] EXCEPT !.Service = StripLower(t[i].Service)]]

\* fillna(0) on one value.
FillNa0(x) == IF IsNull(x) THEN Num(0, 1) ELSE x

\* ChangePct dividing by the previous value and not by its absolute value.
ChangePct_NoAbs(cm, prev) ==
    IF ~IsNull(prev) /\ prev # Num(0, 1)
    THEN FMul(FDiv(FSub(cm, prev), prev), Num(100, 1))
    ELSE Num(0, 1)

\* The Change % of one row of the merged frame.
ChangePct(cm, prev) ==
    IF ~IsNull(prev) /\ prev # Num(0, 1)
    THEN FMul(FDiv(FSub(cm, prev), FAbs(prev)), Num(100, 1))
    ELSE Num(0, 1)

\* generate_bar_chart(data, prev_data) up to the frame it plots.  The
\* outcome is the frame (aggregated_data) and the columns the two helper
\* functions returned, or the exception raised on the way; prev_data is
\* the argument of the call.
generate_bar_chart(t, prev_data, build) ==
    LET sums == GroupByService(t, {"CM", "Rev", "Cost", "BCM", "BRev"})
        cm == [i \in DOMAIN sums |-> calculate_contribution_margin(sums[i], build)]
        budget == [i \in DOMAIN sums |-> calculate_budget_contribution_margin(sums[i])]
        prev_aggregated == GroupByService(Normalised(prev_data.rows), {"CM", "Rev", "Cost"})
        prev_cm == [i \in DOMAIN prev_aggregated |->
                       calculate_contribution_margin(prev_aggregated[i], build)]
        \* merge(how='left'): the previous value of a name, NaN without a match
        PrevOf(name) ==
            IF \E j \in DOMAIN prev_aggregated : prev_aggregated[j].Service = name
            THEN prev_cm[CHOOSE j \in DOMAIN prev_aggregated :
                             prev_aggregated[j].Service = name]
            ELSE NaN
        raises ==
            \/ sums = <<>> /\ build.emptyApply = "raises"
            \/ \E i \in DOMAIN cm : cm[i] = Raised
            \/ /\ prev_data.given
               /\ \/ prev_aggregated = <<>> /\ build.emptyApply = "raises"
                  \/ \E j \in DOMAIN prev_cm : prev_cm[j] = Raised
        frame ==
            [i \in DOMAIN sums |->
                LET name == IF prev_data.given THEN StripLower(sums[i].Service)
                            ELSE sums[i].Service
                    prev == IF prev_data.given THEN PrevOf(name) ELSE NaN
                    change == IF prev_data.given THEN ChangePct(cm[i], prev) ELSE NaN
                IN  [Service |-> name,
                     CM |-> sums[i].CM, Rev |-> sums[i].Rev, Cost |-> sums[i].Cost,
                     BCM |-> sums[i].BCM, BRev |-> sums[i].BRev,
                     CMpct |-> FillNa0(cm[i]),
                     BudgetCMpct |-> FillNa0(budget[i]),
                     Prev |-> FillNa0(prev),
                     Change |-> FillNa0(change),
                     Underperforming |-> FLess(cm[i], budget[i])]]
    IN  [raised |-> raises,
         prev_data |-> prev_data,
         sums |-> sums,
         returned |-> cm,
         budget_returned |-> budget,
         aggregated_data |-> IF raises THEN <<>> ELSE frame]

\* One more row of the frame handed to generate_bar_chart.
ReadExcel2 ==
    /\ script = "Prompt2"
    /\ status = "reading"
    /\ Len(data) < MaxRows2
    /\ \E r \in Rows2 : data' = Append(data, r)
    /\ UNCHANGED <<script, status, results>>

\* generate_bar_chart on the rows read, with some frame of a previous
\* period.
GenerateBarChart ==
    /\ script = "Prompt2"
    /\ status = "reading"
    /\ \E prev_data \in PrevFrames, build \in Builds :
          /\ results' = generate_bar_chart(data, prev_data, build)
          /\ status' = IF results'.raised THEN "raised" ELSE "saved"
    /\ UNCHANGED <<script, data>>

NextCharts == ReadExcel2 \/ GenerateBarChart

SpecCharts == Start({"Prompt2"}) /\ [][NextCharts]_vars

(***************************************************************************)
(* Service-and-role performance report (Prompt7.py)                        *)
(***************************************************************************)
MaxRows7 == 2

Roles == {1, 2}

\* (service line, role, year) of the rows of the input file: the first group
\* and three groups that differ from it in one of the three.
Groups7 == {<<1, 1, 2023>>, <<2, 1, 2023>>, <<1, 2, 2023>>, <<1, 1, 2024>>}

Months7 == {1, 2, 3}

Measures7 ==
    { [BH |-> 1, TH |-> 2, Adj |-> 1, Rev |-> 4],
      [BH |-> 2, TH |-> 2, Adj |-> -2, Rev |-> 2],
      [BH |-> 1, TH |-> 0, Adj |-> -1, Rev |-> 1],
      [BH |-> 0, TH |-> 0, Adj |-> 0, Rev |-> 0] }

Rows7 ==
    { [Service |-> g[1], Role |-> g[2], Year |-> g[3], Month |-> m,
       BH |-> x.BH, TH |-> x.TH, Adj |-> x.Adj, Rev |-> x.Rev] :
         g \in Groups7, m \in Months7, x \in Measures7 }

\* The group key of groupby(['Service Areas Shortname', 'Year', 'Month',
\* 'Role']) and its place in the sorted order of the keys.
Key7(r) == <<r.Service, r.Year, r.Month, r.Role>>

KeyRank7(k) == ((k[1] * 10000 + k[2]) * 100 + k[3]) * 10 + k[4]

\* The keys of a set in ascending order.
RECURSIVE SortKeys7(_)
SortKeys7(keys) ==
    IF keys = {} THEN <<>>
    ELSE LET first == CHOOSE k \in keys :
                          \A other \in keys : KeyRank7(k) <= KeyRank7(other)
         IN  <<first>> \o SortKeys7(keys \ {first})

\* The keys of the rows in the order in which the rows have them first.
RECURSIVE FirstSeen7(_, _)
FirstSeen7(t, seen) ==
    IF t = <<>> THEN <<>>
    ELSE IF Key7(Head(t)) \in seen THEN FirstSeen7(Tail(t), seen)
    ELSE <<Key7(Head(t))>> \o FirstSeen7(Tail(t), seen \cup {Key7(Head(t))})

\* Grouped7 with the keys left in the order of the input rows
\* (groupby(..., sort=False)).
Grouped7_InputOrder(t) ==
    LET keys == FirstSeen7(t, {})
    IN  [i \in DOMAIN keys |->
            LET rows == SelectSeq(t, LAMBDA r : Key7(r) = keys[i])
                billable == SumCol(rows, "BH")
                total == SumCol(rows, "TH")
                revenue == SumCol(rows, "Rev")
            IN  [Service |-> keys[i][1], Year |-> keys[i][2], Month |-> keys[i][3],
                 Role |-> keys[i][4],
                 BH |-> billable, TH |-> total, Adj |-> SumCol(rows, "Adj"),
                 Rev |-> revenue,
                 Billing |-> FMul(Num(billable, total), Num(100, 1)),
                 Hourly |-> Num(revenue, total)]]

\* groupby(...).agg(sum).reset_index() with the two metrics of lines 26-27:
\* one row per key, in the order of the keys.
Grouped7(t) ==
    LET keys == SortKeys7({Key7(t[i]) : i \in DOMAIN t})
    IN  [i \in DOMAIN keys |->
            LET rows == SelectSeq(t, LAMBDA r : Key7(r) = keys[i])
                billable == SumCol(rows, "BH")
                total == SumCol(rows, "TH")
                revenue == SumCol(rows, "Rev")
            IN  [Service |-> keys[i][1], Year |-> keys[i][2], Month |-> keys[i][3],
                 Role |-> keys[i][4],
                 BH |-> billable, TH |-> total, Adj |-> SumCol(rows, "Adj"),
                 Rev |-> revenue,
                 Billing |-> FMul(Num(billable, total), Num(100, 1)),
                 Hourly |-> Num(revenue, total)]]

\* ShiftIndex7 with the year left out of the group of the shift.
ShiftIndex7_AcrossYears(g, i) ==
    LET before == {j \in 1..(i - 1) :
                      /\ g[j].Service = g[i].Service
                      /\ g[j].Role = g[i].Role}
    IN  IF before = {} THEN 0
        ELSE CHOOSE j \in before : \A k \in before : k <= j

\* groupby(['Service Areas Shortname', 'Role', 'Year'])[col].shift(1): the
\* index of the row before row i in its group, 0 if it is the first.
ShiftIndex7(g, i) ==
    LET before == {j \in 1..(i - 1) :
                      /\ g[j].Service = g[i].Service
                      /\ g[j].Role = g[i].Role
                      /\ g[j].Year = g[i].Year}
    IN  IF before = {} THEN 0
        ELSE CHOOSE j \in before : \A k \in before : k <= j

\* ((current - previous) / previous) * 100
MoM7(current, previous) ==
    FMul(FDiv(FSub(current, previous), previous), Num(100, 1))

\* grouped_data after the MoM columns are filled (lines 18-42).
analyze_service_and_role_performance(t) ==
    LET g == Grouped7(t)
    IN  [i \in DOMAIN g |->
            LET j == ShiftIndex7(g, i)
                adjustments == Num(g[i].Adj, 1)
                prev_billing == IF j = 0 THEN NaN ELSE g[j].Billing
                prev_adjustments == IF j = 0 THEN NaN ELSE Num(g[j].Adj, 1)
                prev_hourly == IF j = 0 THEN NaN ELSE g[j].Hourly
            IN  [Service |-> g[i].Service, Year |-> g[i].Year, Month |-> g[i].Month,
                 Role |-> g[i].Role,
                 BH |-> g[i].BH, TH |-> g[i].TH, Adj |-> g[i].Adj, Rev |-> g[i].Rev,
                 Billing |-> g[i].Billing, Hourly |-> g[i].Hourly,
                 PrevBilling |-> prev_billing,
                 PrevAdj |-> prev_adjustments,
                 PrevHourly |-> prev_hourly,
                 MoMBilling |-> FillNa0(MoM7(g[i].Billing, prev_billing)),
                 MoMAdj |-> FillNa0(MoM7(adjustments, prev_adjustments)),
                 MoMHourly |-> FillNa0(MoM7(g[i].Hourly, prev_hourly))]]

ReadExcel7 ==
    /\ script = "Prompt7"
    /\ status = "reading"
    /\ Len(data) < MaxRows7
    /\ \E r \in Rows7 : data' = Append(data, r)
    /\ UNCHANGED <<script, status, results>>

AnalyzeServiceAndRole ==
    /\ script = "Prompt7"
    /\ status = "reading"
    /\ status' = "saved"
    /\ results' = analyze_service_and_role_performance(data)
    /\ UNCHANGED <<script, data>>

NextRoles == ReadExcel7 \/ AnalyzeServiceAndRole

SpecRoles == Start({"Prompt7"}) /\ [][NextRoles]_vars

(***************************************************************************)
(* Below-median analysis (Prompt8.py): analyze_below_median_employees for  *)
(* the rows of one role, year and month                                    *)
(***************************************************************************)
MaxRows8 == 3

Employees == {1, 2, 3}

\* (cost center, service line) of a row: two cost centers of service line 1
\* and a second service line.
Centers8 == {<<1, 1>>, <<2, 1>>, <<2, 2>>}

Measures8 ==
    { [Rev |-> 1, Hours |-> 0], [Rev |-> 1, Hours |-> 1], [Rev |-> 3, Hours |-> 1] }

Rows8 ==
    { [CostCenter |-> c[1], Service |-> c[2], Employee |-> e,
       Rev |-> x.Rev, Hours |-> x.Hours] :
         c \in Centers8, e \in Employees, x \in Measures8 }

\* The values of a sequence of numbers in ascending order.
RECURSIVE SortFloats(_)
SortFloats(xs) ==
    IF xs = <<>> THEN <<>>
    ELSE LET i == CHOOSE k \in DOMAIN xs : \A j \in DOMAIN xs : ~FLess(xs[j], xs[k])
         IN  <<xs[i]>> \o SortFloats(SubSeq(xs, 1, i - 1) \o SubSeq(xs, i + 1, Len(xs)))

\* Series.median() of numbers without NaN; NaN for no number.
Median(xs) ==
    LET sorted == SortFloats(xs)
        n == Len(xs)
    IN  IF n = 0 THEN NaN
        ELSE IF n % 2 = 1 THEN sorted[(n + 1) \div 2]
        ELSE FDiv(FSub(sorted[n \div 2], FNeg(sorted[n \div 2 + 1])), Num(2, 1))

\* The hourly rate with 0 in place of None for an employee without hours.
HourlyRate8_ZeroForNoHours(revenue, hours) ==
    IF hours > 0 THEN Num(revenue, hours) ELSE Num(0, 1)

\* row['Total_Revenue'] / row['Total_Hours'] if row['Total_Hours'] > 0 else None
HourlyRate8(revenue, hours) ==
    IF hours > 0 THEN Num(revenue, hours) ELSE NaN

\* groupby('Employee ID', as_index=False).agg(sum) with the hourly rate: one
\* row per employee, in the order of the ids.
GroupByEmployee(t) ==
    LET ids == SelectSeq(<<1, 2, 3, 4>>, LAMBDA e : e \in Unique(t, "Employee"))
    IN  [i \in DOMAIN ids |->
            LET rows == Where(t, "Employee", ids[i])
            IN  [Employee |-> ids[i],
                 Rev |-> SumCol(rows, "Rev"),
                 Hours |-> SumCol(rows, "Hours"),
                 Rate |-> HourlyRate8(SumCol(rows, "Rev"), SumCol(rows, "Hours"))]]

\* Series.dropna()
DropNa(xs) == SelectSeq(xs, LAMBDA x : ~IsNull(x))

\* analyze_below_median_employees(data, cost_center, role, year, month) on a
\* table with rows of the cost center.
analyze_below_median_employees(t, cost_center) ==
    LET filtered_data == Where(t, "CostCenter", cost_center)
        service_line == filtered_data[1].Service
        service_line_role_data == Where(t, "Service", service_line)
        service_line_role_aggregated == GroupByEmployee(service_line_role_data)
        valid_hourly_rates ==
            DropNa([i \in DOMAIN service_line_role_aggregated |->
                       service_line_role_aggregated[i].Rate])
        median_hourly_rate == Median(valid_hourly_rates)
        aggregated_data == GroupByEmployee(filtered_data)
    IN  [cost_center |-> cost_center,
         service_line |-> service_line,
         service_line_role_aggregated |-> service_line_role_aggregated,
         median_hourly_rate |-> median_hourly_rate,
         aggregated_data |-> aggregated_data,
         below_median_employees |->
             SelectSeq(aggregated_data,
                       LAMBDA e : FLess(e.Rate, median_hourly_rate))]

ReadExcel8 ==
    /\ script = "Prompt8"
    /\ status = "reading"
    /\ Len(data) < MaxRows8
    /\ \E r \in Rows8 : data' = Append(data, r)
    /\ UNCHANGED <<script, status, results>>

\* One call of the loop of analyze_all_cost_centers_roles.
AnalyzeBelowMedian ==
    /\ script = "Prompt8"
    /\ status = "reading"
    /\ \E cost_center \in Unique(data, "CostCenter") :
          results' = analyze_below_median_employees(data, cost_center)
    /\ status' = "saved"
    /\ UNCHANGED <<script, data>>

NextMedian == ReadExcel8 \/ AnalyzeBelowMedian

SpecMedian == Start({"Prompt8"}) /\ [][NextMedian]_vars

(***************************************************************************)
(* Project ranking (Prompt3.py): analyze_projects                          *)
(***************************************************************************)
MaxRows3 == 2

\* (year, service line) of the rows of the input file.
Groups3 == {<<2023, 1>>, <<2023, 2>>, <<2024, 1>>}

Months3 == {1, 2}

Projects == {1, 2, 3}

Rows3 ==
    { [Year |-> g[1], Service |-> g[2], Month |-> m, Project |-> p, CMA |-> v] :
         g \in Groups3, m \in Months3, p \in Projects, v \in {-1, 1} }

\* results = analyze_projects(data, num_projects_options=[3, 7])
num_projects_options == <<3, 7>>

\* Place of a (year, service line, month, project) key in the sorted order of
\* the keys; the month of a yearly key is 0.
KeyRank3(r) == ((r.Year * 10 + r.Service) * 100 + r.Month) * 10 + r.Project

\* The rows of a set of rows with different keys, in the order of the keys.
RECURSIVE SortRows3(_)
SortRows3(rows) ==
    IF rows = {} THEN <<>>
    ELSE LET first == CHOOSE r \in rows :
                          \A other \in rows : KeyRank3(r) <= KeyRank3(other)
         IN  <<first>> \o SortRows3(rows \ {first})

\* data.groupby(['Year', 'Service Areas Shortname', 'Month', 'Prosjekt-ID'])
\*     .agg({'Contribution_Margin_After': 'sum'}).reset_index()
MonthlyProjects(t) ==
    SortRows3({ [Year |-> t[i].Year, Service |-> t[i].Service, Month |-> t[i].Month,
                 Project |-> t[i].Project,
                 CMA |-> SumCol(SelectSeq(t, LAMBDA r :
                                   /\ r.Year = t[i].Year /\ r.Service = t[i].Service
                                   /\ r.Month = t[i].Month
                                   /\ r.Project = t[i].Project), "CMA")] :
                i \in DOMAIN t })

\* The yearly re-aggregation that forgets to group by the year.
YearlyProjects_AllYears(agg) ==
    SortRows3({ [Year |-> agg[i].Year, Service |-> agg[i].Service, Month |-> 0,
                 Project |-> agg[i].Project,
                 CMA |-> SumCol(SelectSeq(agg, LAMBDA r :
                                   /\ r.Service = agg[i].Service
                                   /\ r.Project = agg[i].Project), "CMA")] :
                i \in DOMAIN agg })

\* The yearly table taken from the monthly sums without summing them again.
YearlyProjects_NoReaggregation(agg) ==
    [i \in DOMAIN agg |-> [agg[i] EXCEPT !.Month = 0]]

\* aggregated_data.groupby(['Year', 'Service Areas Shortname', 'Prosjekt-ID'])
\*     .agg({'Contribution_Margin_After': 'sum'}).reset_index()
YearlyProjects(agg) ==
    SortRows3({ [Year |-> agg[i].Year, Service |-> agg[i].Service, Month |-> 0,
                 Project |-> agg[i].Project,
                 CMA |-> SumCol(SelectSeq(agg, LAMBDA r :
                                   /\ r.Year = agg[i].Year
                                   /\ r.Service = agg[i].Service
                                   /\ r.Project = agg[i].Project), "CMA")] :
                i \in DOMAIN agg })

\* sort_values(by=col, ascending=...) with the default kind: rows with equal
\* values come in the order of the table when the sort of the build is
\* stable, and need not when it is not (ties = "reversed" is the outcome
\* that turns every tie round).
RECURSIVE SortValues(_, _, _, _)
SortValues(t, col, ascending, ties) ==
    IF t = <<>> THEN <<>>
    ELSE LET Before(a, b) == IF ascending THEN a < b ELSE a > b
             best == {k \in DOMAIN t : \A j \in DOMAIN t : ~Before(t[j][col], t[k][col])}
             i == IF ties = "stable"
                  THEN CHOOSE k \in best : \A j \in best : k <= j
                  ELSE CHOOSE k \in best : \A j \in best : k >= j
         IN  <<t[i]>> \o SortValues(SubSeq(t, 1, i - 1) \o SubSeq(t, i + 1, Len(t)),
                                     col, ascending, ties)

\* DataFrame.head(n)
HeadRows(t, n) == SubSeq(t, 1, IF n < Len(t) THEN n ELSE Len(t))

\* Rankings3 with the Top N taken from the ascending order.
Rankings3_TopAscending(partition, year, month, service_line, ties) ==
    UNION { { [Year |-> year, Month |-> month, Service |-> service_line,
               Type |-> type, N |-> num_projects_options[k],
               Details |-> LET picked == HeadRows(
                                   SortValues(partition, "CMA", TRUE, ties),
                                   num_projects_options[k])
                           IN  [i \in DOMAIN picked |-> picked[i].Project]] :
              type \in {"Bottom", "Top"} } :
            k \in DOMAIN num_projects_options }

\* The Bottom N and Top N result rows of one partition.
Rankings3(partition, year, month, service_line, ties) ==
    UNION { { [Year |-> year, Month |-> month, Service |-> service_line,
               Type |-> "Bottom", N |-> num_projects_options[k],
               Details |-> LET picked == HeadRows(
                                   SortValues(partition, "CMA", TRUE, ties),
                                   num_projects_options[k])
                           IN  [i \in DOMAIN picked |-> picked[i].Project]],
              [Year |-> year, Month |-> month, Service |-> service_line,
               Type |-> "Top", N |-> num_projects_options[k],
               Details |-> LET picked == HeadRows(
                                   SortValues(partition, "CMA", FALSE, ties),
                                   num_projects_options[k])
                           IN  [i \in DOMAIN picked |-> picked[i].Project]] } :
            k \in DOMAIN num_projects_options }

\* analyze_projects(data): the two aggregations and the result rows (month 0
\* is "Full Year").
analyze_projects(t, ties) ==
    LET aggregated_data == MonthlyProjects(t)
        yearly_aggregated_data == YearlyProjects(aggregated_data)
        groups == {<<aggregated_data[i].Year, aggregated_data[i].Service>> :
                      i \in DOMAIN aggregated_data}
    IN  [aggregated_data |-> aggregated_data,
         yearly_aggregated_data |-> yearly_aggregated_data,
         results |->
             UNION { LET service_line_data ==
                             SelectSeq(aggregated_data, LAMBDA r :
                                 r.Year = g[1] /\ r.Service = g[2])
                         yearly_service_data ==
                             SelectSeq(yearly_aggregated_data, LAMBDA r :
                                 r.Year = g[1] /\ r.Service = g[2])
                     IN  UNION { Rankings3(Where(service_line_data, "Month", month),
                                           g[1], month, g[2], ties) :
                                 month \in Unique(service_line_data, "Month") }
                         \cup Rankings3(yearly_service_data, g[1], 0, g[2], ties)
                   : g \in groups }]

ReadExcel3 ==
    /\ script = "Prompt3"
    /\ status = "reading"
    /\ Len(data) < MaxRows3
    /\ \E r \in Rows3 : data' = Append(data, r)
    /\ UNCHANGED <<script, status, results>>

\* An input file of one year and service line with up to four projects, so
\* that a month can hold more projects than the 3 of the shorter ranking.
\* Project 1 has rows in two months; the margins make ties and strict
\* orders, and the yearly order of projects 1 and 2 can differ from their
\* order in month 1.
MaxRowsOneLine3 == 4

RowsOneLine3 ==
    { [Year |-> 2023, Service |-> 1, Month |-> x[1], Project |-> x[2], CMA |-> x[3]] :
        x \in {<<1, 1, 1>>, <<2, 1, 1>>, <<2, 1, 2>>, <<1, 2, 1>>, <<1, 2, 2>>,
                <<1, 3, 1>>, <<1, 4, 2>>} }

ReadExcelOneLine3 ==
    /\ script = "Prompt3 on one service line"
    /\ status = "reading"
    /\ Len(data) < MaxRowsOneLine3
    /\ \E r \in RowsOneLine3 : data' = Append(data, r)
    /\ UNCHANGED <<script, status, results>>

AnalyzeProjects ==
    /\ script \in {"Prompt3", "Prompt3 on one service line"}
    /\ status = "reading"
    /\ status' = "saved"
    /\ \E ties \in {"stable", "reversed"} : results' = analyze_projects(data, ties)
    /\ UNCHANGED <<script, data>>

NextProjects == ReadExcel3 \/ AnalyzeProjects

(***************************************************************************)
(* High-cost tasks (Prompt4.py)                                            *)
(***************************************************************************)
MaxRows4 == 3

\* Rows of the input file: tasks 1..3 (in the order of their names) of one
\* year, service line and role, task 1 in two months, and one row of a
\* second role.
Rows4 ==
    { [Year |-> 2023, Service |-> 1, Role |-> x[1], Month |-> x[2], Task |-> x[3],
       Cost |-> x[4]] :
        x \in {<<1, 1, 1, 1>>, <<1, 1, 1, 2>>, <<1, 2, 1, 2>>, <<1, 1, 2, 1>>,
                <<1, 1, 2, 2>>, <<1, 1, 3, 1>>, <<2, 1, 1, 1>>} }

\* The numbers of tasks typed at the prompt of the script.
NumTasksLists == {<<1>>, <<2, 3>>}

\* t.groupby('Task')['Cost'].agg(['sum', 'mean']).reset_index(): one row per
\* task, in the order of the tasks.
TaskCosts(t) ==
    LET tasks == Unique(t, "Task")
        Place(task) == Cardinality({other \in tasks : other < task}) + 1
    IN  [k \in 1..Cardinality(tasks) |->
            LET task == CHOOSE x \in tasks : Place(x) = k
                rows == Where(t, "Task", task)
            IN  [Task |-> task, sum |-> SumCol(rows, "Cost"),
                 mean |-> Num(SumCol(rows, "Cost"), Len(rows))]]

\* The result rows of one partition: for each number of tasks the head of
\* the aggregated costs in descending order of the sum.
TopTasks(partition, year, month, service_line, role, num_tasks_list, ties) ==
    LET aggregated == SortValues(TaskCosts(partition), "sum", FALSE, ties)
    IN  { [Year |-> year, Month |-> month, Service |-> service_line, Role |-> role,
           N |-> num_tasks_list[k],
           top_tasks |-> HeadRows(aggregated, num_tasks_list[k])] :
            k \in DOMAIN num_tasks_list }

\* identify_high_cost_tasks(data, num_tasks_list): the result rows (month 0
\* is "Full Year").
identify_high_cost_tasks(t, num_tasks_list, ties) ==
    UNION { LET role_data ==
                    SelectSeq(t, LAMBDA r :
                        r.Year = g[1] /\ r.Service = g[2] /\ r.Role = g[3])
            IN  UNION { TopTasks(Where(role_data, "Month", month),
                                 g[1], month, g[2], g[3], num_tasks_list, ties) :
                        month \in Unique(role_data, "Month") }
                \cup TopTasks(role_data, g[1], 0, g[2], g[3], num_tasks_list, ties)
          : g \in {<<t[i].Year, t[i].Service, t[i].Role>> : i \in DOMAIN t} }

ReadExcel4 ==
    /\ script = "Prompt4"
    /\ status = "reading"
    /\ Len(data) < MaxRows4
    /\ \E r \in Rows4 : data' = Append(data, r)
    /\ UNCHANGED <<script, status, results>>

IdentifyHighCostTasks ==
    /\ script = "Prompt4"
    /\ status = "reading"
    /\ status' = "saved"
    /\ \E num_tasks_list \in NumTasksLists, ties \in {"stable", "reversed"} :
          results' = identify_high_cost_tasks(data, num_tasks_list, ties)
    /\ UNCHANGED <<script, data>>

NextTasks == ReadExcel4 \/ IdentifyHighCostTasks

(***************************************************************************)
(* IQR outlier report (Prompt5.py): analyze_iqr_outliers                   *)
(***************************************************************************)
MaxRows5 == 2

\* (service line, role) of the rows of the input file.
Groups5 == {<<1, 1>>, <<2, 2>>}

Months5 == {1, 2}

Employees5 == {1, 2}

Measures5 ==
    { [BH |-> 1, Rev |-> 2, Cost |-> 1, Adj |-> 0],
      [BH |-> 2, Rev |-> 1, Cost |-> 3, Adj |-> -1] }

Rows5 ==
    { [Year |-> y, Month |-> m, Service |-> g[1], Role |-> g[2], Employee |-> e,
       BH |-> x.BH, Rev |-> x.Rev, Cost |-> x.Cost, Adj |-> x.Adj] :
         y \in Years, m \in Months5, g \in Groups5, e \in Employees5,
         x \in Measures5 }

\* metrics = ['Billable_Hours', 'Revenue', 'Cost', 'Adjustments']
metrics == <<"BH", "Rev", "Cost", "Adj">>

\* Place of a (year, month, service line, role, employee) key in the sorted
\* order of the keys; the month of a yearly key is 0.
KeyRank5(r) ==
    (((r.Year * 100 + r.Month) * 10 + r.Service) * 10 + r.Role) * 10 + r.Employee

RECURSIVE SortRows5(_)
SortRows5(rows) ==
    IF rows = {} THEN <<>>
    ELSE LET first == CHOOSE r \in rows :
                          \A other \in rows : KeyRank5(r) <= KeyRank5(other)
         IN  <<first>> \o SortRows5(rows \ {first})

\* One row of a groupby(...).agg(sum): the key of row r with month `month`
\* and the sums of the four metrics over the rows `members`.
Summed5(r, month, members) ==
    [Year |-> r.Year, Month |-> month, Service |-> r.Service, Role |-> r.Role,
     Employee |-> r.Employee,
     BH |-> SumCol(members, "BH"), Rev |-> SumCol(members, "Rev"),
     Cost |-> SumCol(members, "Cost"), Adj |-> SumCol(members, "Adj")]

\* aggregate_employee_data(data)
aggregate_employee_data(t) ==
    SortRows5({ Summed5(t[i], t[i].Month,
                        SelectSeq(t, LAMBDA r :
                            /\ r.Year = t[i].Year /\ r.Month = t[i].Month
                            /\ r.Service = t[i].Service /\ r.Role = t[i].Role
                            /\ r.Employee = t[i].Employee)) :
                i \in DOMAIN t })

\* The yearly aggregation that counts the rows of the first month only.
YearlyEmployees_FirstMonth(part) ==
    SortRows5({ Summed5(part[i], 0,
                        SelectSeq(part, LAMBDA r :
                            r.Employee = part[i].Employee /\ r.Month = part[1].Month)) :
                i \in DOMAIN part })

\* part.groupby(['Year', 'Service Areas Shortname', 'Role', 'Employee'],
\*              as_index=False).agg(sum) on the rows of one year, service
\* line and role.
YearlyEmployees(part) ==
    SortRows5({ Summed5(part[i], 0, Where(part, "Employee", part[i].Employee)) :
                i \in DOMAIN part })

\* The integers of a sequence in ascending order.
RECURSIVE SortInts(_)
SortInts(xs) ==
    IF xs = <<>> THEN <<>>
    ELSE LET i == CHOOSE k \in DOMAIN xs : \A j \in DOMAIN xs : xs[k] <= xs[j]
         IN  <<xs[i]>> \o SortInts(SubSeq(xs, 1, i - 1) \o SubSeq(xs, i + 1, Len(xs)))

\* Series.quantile(qn/qd) with linear interpolation, of a column that is not
\* empty, given by its values in ascending order.
Quantile(sorted, qn, qd) ==
    LET pos == (Len(sorted) - 1) * qn
        lo == pos \div qd + 1
        rest == pos % qd
    IN  IF rest = 0 THEN Num(sorted[lo], 1)
        ELSE Num(sorted[lo] * qd + (sorted[lo + 1] - sorted[lo]) * rest, qd)

\* Lines 25-29 of detect_outliers_iqr: the bounds of a column.
IqrBounds(t, column) ==
    LET values == SortInts([i \in DOMAIN t |-> t[i][column]])
        Q1 == Quantile(values, 1, 4)
        Q3 == Quantile(values, 3, 4)
        IQR == FSub(Q3, Q1)
    IN  [lower_bound |-> FSub(Q1, FMul(Num(3, 2), IQR)),
         upper_bound |-> FSub(Q3, FNeg(FMul(Num(3, 2), IQR)))]

\* A frame is given by its rows t and, apart from them, its column
\* Outlier_Type: a label for every row, or <<>> for a frame that does not
\* have the column.  Python's None is the label "None".

\* The assignment of Outlier_Type that leaves the label of an earlier call
\* where there is one.
OutlierTypeColumn_KeepEarlier(t, column, bounds, Outlier_Type) ==
    [i \in DOMAIN t |->
        IF Outlier_Type # <<>> /\ Outlier_Type[i] # "None" THEN Outlier_Type[i]
        ELSE IF FLess(Num(t[i][column], 1), bounds.lower_bound) THEN "Low"
        ELSE IF FLess(bounds.upper_bound, Num(t[i][column], 1)) THEN "High"
        ELSE "None"]

\* data['Outlier_Type'] = np.where(data[column] < lower_bound, 'Low',
\*     np.where(data[column] > upper_bound, 'High', None)): the column after
\* the assignment, which replaces the column the frame had.
OutlierTypeColumn(t, column, bounds, Outlier_Type) ==
    [i \in DOMAIN t |->
        IF FLess(Num(t[i][column], 1), bounds.lower_bound) THEN "Low"
        ELSE IF FLess(bounds.upper_bound, Num(t[i][column], 1)) THEN "High"
        ELSE "None"]

\* The rows of indexes `rows` of the frame as the report reads them.
OutlierRows(t, column, Outlier_Type, rows) ==
    [k \in DOMAIN rows |->
        [Employee |-> t[rows[k]].Employee, Metric |-> column,
         Value |-> t[rows[k]][column], Type |-> Outlier_Type[rows[k]]]]

\* detect_outliers_iqr with the bounds counted among the outliers.
detect_outliers_iqr_Inclusive(t, column, Outlier_Type) ==
    LET bounds == IqrBounds(t, column)
        Low(i) == ~FLess(bounds.lower_bound, Num(t[i][column], 1))
        High(i) == ~FLess(Num(t[i][column], 1), bounds.upper_bound)
        written == [i \in DOMAIN t |->
                       IF Low(i) THEN "Low" ELSE IF High(i) THEN "High" ELSE "None"]
        Outside(i) == Low(i) \/ High(i)
    IN  [Outlier_Type |-> written,
         outliers |-> OutlierRows(t, column, written, SelectSeq([i \in DOMAIN t |-> i], Outside))]

\* detect_outliers_iqr(data, column): the column Outlier_Type the call
\* leaves in the frame, and the rows outside the bounds it returns, each
\* with the label it has in that column.
detect_outliers_iqr(t, column, Outlier_Type) ==
    LET bounds == IqrBounds(t, column)
        written == OutlierTypeColumn(t, column, bounds, Outlier_Type)
        Outside(i) ==
            \/ FLess(Num(t[i][column], 1), bounds.lower_bound)
            \/ FLess(bounds.upper_bound, Num(t[i][column], 1))
    IN  [Outlier_Type |-> written,
         outliers |-> OutlierRows(t, column, written, SelectSeq([i \in DOMAIN t |-> i], Outside))]

\* The outlier summary of one partition: the outliers of the four metrics,
\* every call on the frame as the calls before it have left it.
OutlierSummary(part) ==
    LET pass1 == detect_outliers_iqr(part, metrics[1], <<>>)
        pass2 == detect_outliers_iqr(part, metrics[2], pass1.Outlier_Type)
        pass3 == detect_outliers_iqr(part, metrics[3], pass2.Outlier_Type)
        pass4 == detect_outliers_iqr(part, metrics[4], pass3.Outlier_Type)
    IN  pass1.outliers \o pass2.outliers \o pass3.outliers \o pass4.outliers

\* analyze_iqr_outliers(data): the aggregation and, for every partition that
\* is not empty, its rows and its outlier summary (month 0 is "Full Year").
analyze_iqr_outliers(t) ==
    LET aggregated_data == aggregate_employee_data(t)
        Part(year, service_line, role) ==
            SelectSeq(aggregated_data, LAMBDA r :
                r.Year = year /\ r.Service = service_line /\ r.Role = role)
        monthly ==
            UNION { { [Year |-> year, Month |-> month, Service |-> service_line,
                       Role |-> role,
                       rows |-> Where(Part(year, service_line, role), "Month", month)] :
                         month \in Unique(Where(aggregated_data, "Year", year), "Month"),
                         service_line \in Unique(aggregated_data, "Service"),
                         role \in Unique(aggregated_data, "Role") } :
                    year \in Unique(aggregated_data, "Year") }
        yearly ==
            { [Year |-> year, Month |-> 0, Service |-> service_line, Role |-> role,
               rows |-> YearlyEmployees(Part(year, service_line, role))] :
                 year \in Unique(aggregated_data, "Year"),
                 service_line \in Unique(aggregated_data, "Service"),
                 role \in Unique(aggregated_data, "Role") }
    IN  [aggregated_data |-> aggregated_data,
         results |->
             { [Year |-> p.Year, Month |-> p.Month, Service |-> p.Service,
                Role |-> p.Role, rows |-> p.rows,
                outliers |-> OutlierSummary(p.rows)] :
                  p \in {q \in monthly \cup yearly : q.rows # <<>>} }]

ReadExcel5 ==
    /\ script = "Prompt5"
    /\ status = "reading"
    /\ Len(data) < MaxRows5
    /\ \E r \in Rows5 : data' = Append(data, r)
    /\ UNCHANGED <<script, status, results>>

MaxRowsPartitions5 == 5

\* Rows of an input file with one partition of several employees, (month 1,
\* role 1), and rows of two other partitions, (month 1, role 2) and
\* (month 2, role 1): (month, role, employee, measures), employee 0 for an
\* employee that no row read before has.  The measures are ordinary ones,
\* hours far above them with a revenue far below, and a cost far above.
RowsPartitions5 ==
    { <<1, 1, 0, [BH |-> 1, Rev |-> 1, Cost |-> 1, Adj |-> 0]>>,
      <<1, 1, 0, [BH |-> 100, Rev |-> -100, Cost |-> 1, Adj |-> 0]>>,
      <<1, 2, 0, [BH |-> 100, Rev |-> -100, Cost |-> 1, Adj |-> 0]>>,
      <<2, 1, 1, [BH |-> 1, Rev |-> 1, Cost |-> 100, Adj |-> 0]>> }

ReadExcelPartitions5 ==
    /\ script = "Prompt5 partitions"
    /\ status = "reading"
    /\ Len(data) < MaxRowsPartitions5
    /\ \E r \in RowsPartitions5 :
          data' = Append(data,
                     [Year |-> 2023, Month |-> r[1], Service |-> 1, Role |-> r[2],
                      Employee |-> IF r[3] = 0 THEN Len(data) + 1 ELSE r[3],
                      BH |-> r[4].BH, Rev |-> r[4].Rev, Cost |-> r[4].Cost,
                      Adj |-> r[4].Adj])
    /\ UNCHANGED <<script, status, results>>

AnalyzeIqrOutliers ==
    /\ script \in {"Prompt5", "Prompt5 partitions"}
    /\ status = "reading"
    /\ status' = "saved"
    /\ results' = analyze_iqr_outliers(data)
    /\ UNCHANGED <<script, data>>

NextIqr == ReadExcel5 \/ AnalyzeIqrOutliers

NextIqrPartitions == ReadExcelPartitions5 \/ AnalyzeIqrOutliers

SpecIqrPartitions == Start({"Prompt5 partitions"}) /\ [][NextIqrPartitions]_vars

SavedPartitions5 == script = "Prompt5 partitions" /\ status = "saved"

(***************************************************************************)
(* generate_bar_chart: claims                                              *)
(***************************************************************************)
\* generate_bar_chart has been called on the rows read.
Charted == script = "Prompt2" /\ status \in {"saved", "raised"}

\* The aggregated buckets on which the two helper functions were called.
Buckets2 == DOMAIN results.sums

\* C3: on an aggregated bucket calculate_contribution_margin gives 0 for
\* revenue = 0 and cost = 0, -100 for revenue = 0 and cost > 0,
\* -(margin/revenue) x 100 for revenue < 0 and (margin/revenue) x 100 for
\* revenue > 0.
C3_EdgeCaseTable ==
    Charted =>
        \A i \in Buckets2 :
            LET b == results.sums[i]
                cm == results.returned[i]
            IN  /\ (b.Rev = 0 /\ b.Cost = 0) => cm = Num(0, 1)
                /\ (b.Rev = 0 /\ b.Cost > 0) => cm = Num(-100, 1)
                /\ b.Rev < 0 => cm = Num(-(b.CM * 100), b.Rev)
                /\ b.Rev > 0 => cm = Num(b.CM * 100, b.Rev)

\* A chart of one bucket that sums two rows: each row has a revenue other
\* than 0, the bucket has a revenue of 0 and positive costs, and -100 was
\* returned for it.
C3_Witness ==
    /\ Charted
    /\ Len(data) = 2 /\ Len(results.sums) = 1
    /\ data[1].Rev # 0 /\ data[2].Rev # 0
    /\ results.sums[1].Rev = 0 /\ results.sums[1].Cost > 0
    /\ results.returned[1] = Num(-100, 1)

\* C4 as stated: for every bucket with revenue < 0 and contribution margin
\* > 0 the Contribution Margin % returned is negative.
C4_NegativeRevenueReadsNegative ==
    Charted =>
        \A i \in Buckets2 :
            (results.sums[i].Rev < 0 /\ results.sums[i].CM > 0) =>
                FLess(results.returned[i], Num(0, 1))

\* C4 amended: for every bucket with revenue < 0 and contribution margin > 0
\* the Contribution Margin % returned is positive: the flip gives the
\* percentage the sign of the margin.
C4_NegativeRevenuePositiveMargin ==
    Charted =>
        \A i \in Buckets2 :
            (results.sums[i].Rev < 0 /\ results.sums[i].CM > 0) =>
                FLess(Num(0, 1), results.returned[i])

\* A bucket with a negative revenue and a positive margin has been charted.
C4_Witness ==
    /\ Charted
    /\ \E i \in Buckets2 :
          /\ results.sums[i].Rev < 0 /\ results.sums[i].CM > 0
          /\ results.returned[i] = Num(results.sums[i].CM * 100, -results.sums[i].Rev)

\* C5: for every bucket, whatever the signs of revenue and production costs,
\* calculate_contribution_margin returns a defined number (it never divides
\* by a revenue of 0).
C5_NeverDividesByZero ==
    Charted => \A i \in Buckets2 : IsNum(results.returned[i])

\* C6: calculate_budget_contribution_margin gives 0 for budget revenue = 0,
\* -(budget_margin/budget_revenue) x 100 for budget revenue < 0 and
\* (budget_margin/budget_revenue) x 100 for budget revenue > 0.
C6_BudgetTable ==
    Charted =>
        \A i \in Buckets2 :
            LET b == results.sums[i]
                cm == results.budget_returned[i]
            IN  /\ b.BRev = 0 => cm = Num(0, 1)
                /\ b.BRev < 0 => cm = Num(-(b.BCM * 100), b.BRev)
                /\ b.BRev > 0 => cm = Num(b.BCM * 100, b.BRev)

\* A chart with a bucket of negative budget revenue and non-zero budget
\* margin and a bucket whose budget revenue sums to 0 with a non-zero budget
\* margin.
C6_Witness ==
    /\ Charted
    /\ \E i, j \in Buckets2 :
          /\ results.sums[i].BRev < 0 /\ results.sums[i].BCM # 0
          /\ results.sums[j].BRev = 0 /\ results.sums[j].BCM # 0
          /\ results.budget_returned[j] = Num(0, 1)

(***************************************************************************)
(* Service-and-role performance report: claims                             *)
(***************************************************************************)
Saved7 == script = "Prompt7" /\ status = "saved"

\* C8: a (service, year, month, role) bucket whose summed total hours are 0
\* gets Billing Rate % = 0, never an undefined or infinite value.
C8_ZeroHoursBillingZero ==
    Saved7 =>
        \A i \in DOMAIN results :
            results[i].TH = 0 => results[i].Billing = Num(0, 1)

(***************************************************************************)
(* Below-median analysis: claims                                           *)
(***************************************************************************)
Saved8 == script = "Prompt8" /\ status = "saved"

\* The rates that are not null of the employees of the service line whose
\* hours are not 0, in the order of the employees.
RatesWithHours ==
    LET withHours == SelectSeq(results.service_line_role_aggregated,
                               LAMBDA e : e.Hours # 0 /\ ~IsNull(e.Rate))
    IN  [i \in DOMAIN withHours |-> withHours[i].Rate]

\* C9: an employee whose summed total hours are 0 has a null hourly rate
\* (not zero); the median is the median of the rates of the employees whose
\* hours are not 0, and an employee without hours is never listed as below
\* the median.
C9_NoHoursIsNull ==
    Saved8 =>
        /\ \A i \in DOMAIN results.service_line_role_aggregated :
              results.service_line_role_aggregated[i].Hours = 0 =>
                  IsNull(results.service_line_role_aggregated[i].Rate)
        /\ \A i \in DOMAIN results.aggregated_data :
              results.aggregated_data[i].Hours = 0 =>
                  /\ IsNull(results.aggregated_data[i].Rate)
                  /\ \A j \in DOMAIN results.below_median_employees :
                        results.below_median_employees[j].Employee
                            # results.aggregated_data[i].Employee
        /\ results.median_hourly_rate = Median(RatesWithHours)

\* An analysis of a cost center with an employee without hours, two
\* employees with different rates, and one of them listed below the median.
C9_Witness ==
    /\ Saved8
    /\ \E i \in DOMAIN results.aggregated_data :
          results.aggregated_data[i].Hours = 0
    /\ Len(results.below_median_employees) = 1
    /\ IsNum(results.median_hourly_rate)

(***************************************************************************)
(* Roll-up of the yearly buckets (Prompt1.py, Prompt3.py, Prompt5.py)      *)
(***************************************************************************)
NextRollup == NextUtil \/ NextProjects \/ NextIqr

SpecRollup == Start({"Prompt1", "Prompt3", "Prompt5"}) /\ [][NextRollup]_vars

Saved3 == script = "Prompt3" /\ status = "saved"

Saved5 == script = "Prompt5" /\ status = "saved"

\* The sum of field col over the records of a finite set.
RECURSIVE SumSet(_, _)
SumSet(S, col) ==
    IF S = {} THEN 0
    ELSE LET x == CHOOSE y \in S : TRUE IN x[col] + SumSet(S \ {x}, col)

\* The monthly buckets of the utilization report under the yearly bucket y.
MonthBuckets1(y) ==
    {b \in results : b.gran = "Month" /\ b.Year = y.Year /\ b.Service = y.Service}

\* The utilization report: each sum of a yearly bucket is the sum of the
\* monthly buckets of its year and service line and the sum of the rows of
\* the input with that year and service line.
Rollup1 ==
    \A y \in {b \in results : b.gran = "Year"} :
        \A col \in {"BH", "TH", "UH"} :
            /\ y[col] = SumSet(MonthBuckets1(y), col)
            /\ y[col] = SumCol(SelectSeq(data, LAMBDA r :
                                   r.Year = y.Year /\ r.Service = y.Service), col)

\* The project ranking: the yearly sum of a (year, service line, project) is
\* the sum of its monthly sums and the sum of its rows of the input, and
\* every row of the input has its yearly sum.
Rollup3 ==
    /\ \A k \in DOMAIN results.yearly_aggregated_data :
          LET y == results.yearly_aggregated_data[k]
              Same(r) == r.Year = y.Year /\ r.Service = y.Service /\ r.Project = y.Project
          IN  /\ y.CMA = SumCol(SelectSeq(results.aggregated_data, Same), "CMA")
              /\ y.CMA = SumCol(SelectSeq(data, Same), "CMA")
    /\ \A i \in DOMAIN data :
          Cardinality({k \in DOMAIN results.yearly_aggregated_data :
                          LET y == results.yearly_aggregated_data[k]
                          IN  /\ y.Year = data[i].Year /\ y.Service = data[i].Service
                              /\ y.Project = data[i].Project}) = 1

\* The IQR report: each yearly sum of a (year, service line, role, employee)
\* is the sum of its monthly sums and the sum of its rows of the input, and
\* every row of the input has its yearly sums.
Rollup5 ==
    /\ \A p \in {q \in results.results : q.Month = 0} :
          \A k \in DOMAIN p.rows :
              LET y == p.rows[k]
                  Same(r) == /\ r.Year = y.Year /\ r.Service = y.Service
                             /\ r.Role = y.Role /\ r.Employee = y.Employee
              IN  \A col \in {"BH", "Rev", "Cost", "Adj"} :
                      /\ y[col] = SumCol(SelectSeq(results.aggregated_data, Same), col)
                      /\ y[col] = SumCol(SelectSeq(data, Same), col)
    /\ \A i \in DOMAIN data :
          \E p \in {q \in results.results : q.Month = 0} :
              /\ p.Year = data[i].Year /\ p.Service = data[i].Service
              /\ p.Role = data[i].Role
              /\ Cardinality({k \in DOMAIN p.rows :
                                 p.rows[k].Employee = data[i].Employee}) = 1

\* C1: in the utilization report, the project ranking and the IQR report
\* the value of every summed measure of a year-level bucket is the sum of
\* that measure over the monthly buckets of the group in that year, with
\* every row of the input counted exactly once.
C1_RollUp ==
    /\ Saved1 => Rollup1
    /\ Saved3 => Rollup3
    /\ Saved5 => Rollup5

\* A project ranking of one project with a row in each of two months of a
\* year: its yearly sum is the sum of the two monthly sums.
C1_Witness ==
    /\ Saved3
    /\ Len(results.aggregated_data) = 2
    /\ Len(results.yearly_aggregated_data) = 1
    /\ results.aggregated_data[1].CMA # 0
    /\ results.yearly_aggregated_data[1].CMA
           = results.aggregated_data[1].CMA + results.aggregated_data[2].CMA

\* A utilization report with a yearly bucket over two monthly buckets.
C1_WitnessUtilization ==
    /\ Saved1
    /\ \E y \in results :
          /\ y.gran = "Year" /\ y.TH # 0
          /\ Cardinality(MonthBuckets1(y)) = 2

\* An IQR report with the yearly sums of an employee over two months.
C1_WitnessIqr ==
    /\ Saved5
    /\ Len(results.aggregated_data) = 2
    /\ \E p \in results.results : p.Month = 0 /\ Len(p.rows) = 1

(***************************************************************************)
(* Ratios of sums (Prompt1.py, Prompt2.py, Prompt7.py)                     *)
(***************************************************************************)
NextRatios == NextUtil \/ NextCharts \/ NextRoles

SpecRatios == Start({"Prompt1", "Prompt2", "Prompt7"}) /\ [][NextRatios]_vars

\* The rows of the input that fall in bucket b of the utilization report.
RowsOfBucket1(b) ==
    SelectSeq(data, LAMBDA r :
        /\ r.Year = b.Year /\ r.Service = b.Service
        /\ r.Month \in 1..12
        /\ b.gran = "Quarter" => QuarterTable[r.Month] = b.period
        /\ b.gran = "Half-Year" => HalfTable[r.Month] = b.period
        /\ b.gran = "Month" => r.Month = b.Month)

\* Every row of the input has a month of the calendar.
ValidMonths1 == \A i \in DOMAIN data : data[i].Month \in 1..12

RatioOfSums1 ==
    \A b \in results :
        LET rows == RowsOfBucket1(b)
        IN  SumCol(rows, "TH") > 0 =>
                /\ b.billing_rate = Num(SumCol(rows, "BH") * 100, SumCol(rows, "TH"))
                /\ b.utilization_rate = Num(SumCol(rows, "UH") * 100, SumCol(rows, "TH"))

RatioOfSums2 ==
    \A i \in DOMAIN results.sums :
        LET rows == Where(data, "Service", results.sums[i].Service)
        IN  /\ SumCol(rows, "Rev") > 0 =>
                  results.returned[i] = Num(SumCol(rows, "CM") * 100, SumCol(rows, "Rev"))
            /\ SumCol(rows, "BRev") > 0 =>
                  results.budget_returned[i]
                      = Num(SumCol(rows, "BCM") * 100, SumCol(rows, "BRev"))

RatioOfSums7 ==
    \A i \in DOMAIN results :
        LET rows == SelectSeq(data, LAMBDA r : Key7(r) = Key7(results[i]))
        IN  SumCol(rows, "TH") > 0 =>
                /\ results[i].Billing = Num(SumCol(rows, "BH") * 100, SumCol(rows, "TH"))
                /\ results[i].Hourly = Num(SumCol(rows, "Rev"), SumCol(rows, "TH"))

\* C2: for input whose months are months of the calendar,
\* in every bucket whose summed denominator is positive, Billing Rate %,
\* Utilization Rate %, Contribution Margin % and Hourly Rate are the sum of
\* the numerator over the rows of the bucket divided by the sum of the
\* denominator over the rows of the bucket (x 100 for the percentages), not
\* the average of the ratios of the rows.
C2_RatioOfSums ==
    /\ (Saved1 /\ ValidMonths1) => RatioOfSums1
    /\ Charted => RatioOfSums2
    /\ Saved7 => RatioOfSums7

\* A monthly bucket of the utilization report of two rows with different
\* billing rates (50 % and 0 %): the bucket reports 100 x 1/3, and the
\* average of the two rates is 25.
C2_Witness ==
    /\ Saved1
    /\ Len(data) = 2
    /\ \E b \in results :
          /\ b.gran = "Month"
          /\ Len(RowsOfBucket1(b)) = 2
          /\ data[1].TH > 0 /\ data[2].TH > 0
          /\ data[1].BH * data[2].TH # data[2].BH * data[1].TH
          /\ b.billing_rate = Num(100, 3)

(***************************************************************************)
(* The utilization report: quarters, half-years and months outside 1..12   *)
(***************************************************************************)
QuarterBuckets1(y) ==
    {b \in results : b.gran = "Quarter" /\ b.Year = y.Year /\ b.Service = y.Service}

HalfBuckets1(y) ==
    {b \in results : b.gran = "Half-Year" /\ b.Year = y.Year /\ b.Service = y.Service}

\* Each sum of a yearly bucket is the sum of the quarter buckets and the sum
\* of the half-year buckets of its group, and each of these buckets sums the
\* rows of the group whose month lies in its period.
QuarterHalfRollUp ==
    \A y \in {b \in results : b.gran = "Year"} :
        \A col \in {"BH", "TH", "UH"} :
            /\ y[col] = SumSet(QuarterBuckets1(y), col)
            /\ y[col] = SumSet(HalfBuckets1(y), col)
            /\ \A b \in QuarterBuckets1(y) \cup HalfBuckets1(y) :
                  b[col] = SumCol(RowsOfBucket1(b), col)

\* C11: in every utilization report each summed measure of a (year, service
\* line) equals the sum over the quarter buckets of the group and the sum
\* over its half-year buckets, every row of the group being counted in
\* exactly one quarter bucket and exactly one half-year bucket.
C11_QuarterHalfRollUp == Saved1 => QuarterHalfRollUp

\* The same for the reports of an input whose months are all in 1..12.
C11_RollUpOfValidMonths == (Saved1 /\ ValidMonths1) => QuarterHalfRollUp

\* The rows of the input whose month is a month of the calendar.
ValidRows1 == SelectSeq(data, LAMBDA r : r.Month \in 1..12)

\* C12: a row whose month is outside 1..12 is rejected and the remaining
\* rows are processed: the run ends with a saved report, and the report is
\* the report of the rows whose month is in 1..12, so that a rejected row is
\* in no quarter, half-year or month bucket.
C12_InvalidMonthRejected ==
    (script = "Prompt1" /\ status # "reading") =>
        /\ status = "saved"
        /\ results = AllBuckets1(ValidRows1)

\* C12, the part on clamping alone: no row with a month outside 1..12 is
\* summed in a half-year bucket of a saved report.
C12_NeverClamped ==
    Saved1 =>
        \A b \in {c \in results : c.gran = "Half-Year"} :
            b.TH = SumCol(RowsOfBucket1(b), "TH")

(***************************************************************************)
(* generate_bar_chart: the change against the previous period              *)
(***************************************************************************)
\* The rows of the previous period of the service line of row i of the
\* chart; a name is compared stripped and in lower case.
PrevRowsOf(i) ==
    SelectSeq(results.prev_data.rows, LAMBDA r :
        StripLower(r.Service) = StripLower(results.sums[i].Service))

\* (current - previous) / |previous| x 100 of two fractions, previous # 0.
ChangeOf(current, previous) ==
    Num((current.n * previous.d - previous.n * current.d) * 100,
        current.d * AbsInt(previous.n))

\* C13: in every chart, the change of a service line is
\* (current CM% - previous CM%) / |previous CM%| x 100 when the service line
\* has a previous-period CM% that is not 0, and 0 when the service line is
\* absent from the previous period, when there is no previous period, or
\* when its previous CM% is 0.  The previous CM% is the summed margin over
\* the magnitude of the summed revenue of the previous period, x 100.
C13_ChangeValue ==
    Charted =>
        \A i \in DOMAIN results.aggregated_data :
            LET prows == PrevRowsOf(i)
                rev == SumCol(prows, "Rev")
                previous == Num(SumCol(prows, "CM") * 100, AbsInt(rev))
                current == results.returned[i]
                change == results.aggregated_data[i].Change
            IN  IF prows = <<>> \/ (rev # 0 /\ previous = Num(0, 1))
                THEN change = Num(0, 1)
                ELSE (rev # 0 /\ IsNum(current)) =>
                         change = ChangeOf(current, previous)

\* A chart of a service line whose CM% went from -100 to 50, a change of
\* +150, and a chart of a service line that the previous period lacks.
C13_Witness ==
    /\ Charted
    /\ \E i \in DOMAIN results.aggregated_data :
          /\ PrevRowsOf(i) # <<>>
          /\ SumCol(PrevRowsOf(i), "Rev") < 0
          /\ results.returned[i] = Num(50, 1)
          /\ results.aggregated_data[i].Prev = Num(-100, 1)
          /\ results.aggregated_data[i].Change = Num(150, 1)
    /\ \E i \in DOMAIN results.aggregated_data :
          /\ results.prev_data.given
          /\ PrevRowsOf(i) = <<>>
          /\ results.aggregated_data[i].Change = Num(0, 1)

(***************************************************************************)
(* Service-and-role performance report: month-over-month changes           *)
(***************************************************************************)
\* The rows of the report of an earlier month of the (service line, role,
\* year) of row i.
Earlier7(i) ==
    {j \in DOMAIN results :
        /\ results[j].Service = results[i].Service
        /\ results[j].Role = results[i].Role
        /\ results[j].Year = results[i].Year
        /\ results[j].Month < results[i].Month}

\* C14: the earliest month of every (service line, role, year) has no
\* previous value and a MoM change of 0 for Billing Rate %, Adjustments and
\* Hourly Rate; the previous values of every other month are those of the
\* latest earlier month of the same service line, role and year.
C14_FirstMonthIsZero ==
    Saved7 =>
        \A i \in DOMAIN results :
            IF Earlier7(i) = {}
            THEN /\ IsNull(results[i].PrevBilling)
                 /\ IsNull(results[i].PrevAdj)
                 /\ IsNull(results[i].PrevHourly)
                 /\ results[i].MoMBilling = Num(0, 1)
                 /\ results[i].MoMAdj = Num(0, 1)
                 /\ results[i].MoMHourly = Num(0, 1)
            ELSE LET j == CHOOSE k \in Earlier7(i) :
                              \A l \in Earlier7(i) : results[l].Month <= results[k].Month
                 IN  /\ results[i].PrevBilling = results[j].Billing
                     /\ results[i].PrevAdj = Num(results[j].Adj, 1)
                     /\ results[i].PrevHourly = results[j].Hourly

\* A report of one service line and role with a month in each of two
\* years, of different billing rates, adjustments and hourly rates: the
\* month of the second year is the earliest of its year.
C14_Witness ==
    /\ Saved7
    /\ Len(results) = 2
    /\ results[1].Service = results[2].Service
    /\ results[1].Role = results[2].Role
    /\ results[1].Year < results[2].Year
    /\ results[1].TH > 0 /\ results[2].TH > 0
    /\ results[1].Adj # results[2].Adj
    /\ results[1].Billing # results[2].Billing
    /\ results[2].MoMAdj = Num(0, 1)
    /\ results[2].MoMBilling = Num(0, 1)

\* C15: whenever the previous month's value of a metric is exactly 0 the MoM
\* change of that metric is 0.
C15_ZeroPreviousIsZero ==
    Saved7 =>
        \A i \in DOMAIN results :
            /\ results[i].PrevBilling = Num(0, 1) => results[i].MoMBilling = Num(0, 1)
            /\ results[i].PrevAdj = Num(0, 1) => results[i].MoMAdj = Num(0, 1)
            /\ results[i].PrevHourly = Num(0, 1) => results[i].MoMHourly = Num(0, 1)

\* C16: the MoM change of a metric with a previous value that is a number
\* other than 0 is (current - previous) / |previous| x 100, positive for an
\* increase and negative for a decrease.
C16_ChangeOverMagnitude ==
    Saved7 =>
        \A i \in DOMAIN results :
            LET Ok(current, previous, change) ==
                    (IsNum(current) /\ IsNum(previous) /\ previous # Num(0, 1)) =>
                        /\ change = ChangeOf(current, previous)
                        /\ FLess(previous, current) => FLess(Num(0, 1), change)
                        /\ FLess(current, previous) => FLess(change, Num(0, 1))
            IN  /\ Ok(results[i].Billing, results[i].PrevBilling, results[i].MoMBilling)
                /\ Ok(Num(results[i].Adj, 1), results[i].PrevAdj, results[i].MoMAdj)
                /\ Ok(results[i].Hourly, results[i].PrevHourly, results[i].MoMHourly)

(***************************************************************************)
(* Rankings (Prompt3.py, Prompt4.py)                                       *)
(***************************************************************************)
NextRanking == ReadExcelOneLine3 \/ AnalyzeProjects \/ NextTasks

SpecRanking ==
    Start({"Prompt3 on one service line", "Prompt4"}) /\ [][NextRanking]_vars

Ranked3 == script = "Prompt3 on one service line" /\ status = "saved"

Ranked4 == script = "Prompt4" /\ status = "saved"

\* The rows of the input in the window of result row rho of the project
\* ranking (the month, or the whole year when the month is 0).
Window3(rho) ==
    SelectSeq(data, LAMBDA r :
        /\ r.Year = rho.Year /\ r.Service = rho.Service
        /\ rho.Month # 0 => r.Month = rho.Month)

\* The rows of the input in the window of result row rho of the task
\* ranking.
Window4(rho) ==
    SelectSeq(data, LAMBDA r :
        /\ r.Year = rho.Year /\ r.Service = rho.Service /\ r.Role = rho.Role
        /\ rho.Month # 0 => r.Month = rho.Month)

MinOf(a, b) == IF a < b THEN a ELSE b

\* ids is a list of min(n, E) of the E entities, in the order given by
\* InOrder on their sums, and no entity left out comes before a listed one.
\* Sum(e) is the sum of the entity e over the window.
IsFirstN(ids, n, entities, Sum(_), InOrder(_, _)) ==
    /\ Len(ids) = MinOf(n, Cardinality(entities))
    /\ \A k \in DOMAIN ids : ids[k] \in entities
    /\ \A k \in 1..(Len(ids) - 1) : InOrder(Sum(ids[k]), Sum(ids[k + 1]))
    /\ \A e \in entities \ {ids[k] : k \in DOMAIN ids} :
          \A k \in DOMAIN ids : InOrder(Sum(ids[k]), Sum(e))

Descending(a, b) == a >= b

Ascending(a, b) == a <= b

FirstN3 ==
    \A rho \in results.results :
        LET Sum(e) == SumCol(Where(Window3(rho), "Project", e), "CMA")
            entities == Unique(Window3(rho), "Project")
        IN  IF rho.Type = "Top"
            THEN IsFirstN(rho.Details, rho.N, entities, Sum, Descending)
            ELSE IsFirstN(rho.Details, rho.N, entities, Sum, Ascending)

FirstN4 ==
    \A rho \in results :
        LET Sum(e) == SumCol(Where(Window4(rho), "Task", e), "Cost")
            ids == [k \in DOMAIN rho.top_tasks |-> rho.top_tasks[k].Task]
        IN  IsFirstN(ids, rho.N, Unique(Window4(rho), "Task"), Sum, Descending)

\* C17: in the project ranking and the task ranking, for every partition
\* and every requested N the Top N list is the first min(N, E) of the E
\* entities of the partition in descending order of their summed metric and
\* the Bottom N list the first min(N, E) in ascending order; with N above E
\* the list holds all E entities and nothing else.
C17_FirstNOfPartition ==
    /\ Ranked3 => FirstN3
    /\ Ranked4 => FirstN4

\* A month of four projects: its Top 3 and Bottom 3 hold three of them
\* and differ, its Top 7 holds all four.
C17_Witness ==
    /\ Ranked3
    /\ \E top3, bottom3, top7 \in results.results :
          /\ top3.Month = 1 /\ bottom3.Month = 1 /\ top7.Month = 1
          /\ top3.Type = "Top" /\ top3.N = 3
          /\ bottom3.Type = "Bottom" /\ bottom3.N = 3
          /\ top7.Type = "Top" /\ top7.N = 7
          /\ Cardinality(Unique(Window3(top3), "Project")) = 4
          /\ Len(top3.Details) = 3 /\ Len(bottom3.Details) = 3
          /\ Len(top7.Details) = 4
          /\ top3.Details[1] # bottom3.Details[1]

\* A task ranking that cuts: a Top 1 of a partition of two tasks.
C17_WitnessTasks ==
    /\ Ranked4
    /\ \E rho \in results :
          /\ rho.N = 1 /\ Len(rho.top_tasks) = 1
          /\ Cardinality(Unique(Window4(rho), "Task")) = 2

\* No entity is twice in the list ids.
NoRepeat(ids) == \A j, k \in DOMAIN ids : ids[j] = ids[k] => j = k

\* The table a result row of the project ranking is taken from.
TableOf3(rho) ==
    IF rho.Month = 0 THEN results.yearly_aggregated_data ELSE results.aggregated_data

Deduplicated3 ==
    \A rho \in results.results :
        /\ NoRepeat(rho.Details)
        /\ \A k \in DOMAIN rho.Details :
              LET rows == SelectSeq(TableOf3(rho), LAMBDA r :
                              /\ r.Year = rho.Year /\ r.Service = rho.Service
                              /\ r.Month = rho.Month
                              /\ r.Project = rho.Details[k])
              IN  /\ Len(rows) = 1
                  /\ rows[1].CMA
                        = SumCol(Where(Window3(rho), "Project", rho.Details[k]), "CMA")

Deduplicated4 ==
    \A rho \in results :
        /\ NoRepeat([k \in DOMAIN rho.top_tasks |-> rho.top_tasks[k].Task])
        /\ \A k \in DOMAIN rho.top_tasks :
              rho.top_tasks[k].sum
                  = SumCol(Where(Window4(rho), "Task", rho.top_tasks[k].Task), "Cost")

\* C18: in every Top and Bottom list, monthly and full-year, an entity is
\* listed at most once, and the value it is ranked by is the sum of the
\* metric over the rows of the entity in the window of the list (the month,
\* or the whole year), each row once.
C18_RankedOnWindowSum ==
    /\ Ranked3 => Deduplicated3
    /\ Ranked4 => Deduplicated4

\* Project 1 has rows in two months and project 2 a larger margin in month
\* 1: project 2 leads the Top list of month 1, project 1 is once in the
\* full-year list and leads it on its yearly sum.
C18_Witness ==
    /\ Ranked3
    /\ Cardinality({i \in DOMAIN data : data[i].Project = 1}) >= 2
    /\ Cardinality({data[i].Month : i \in {j \in DOMAIN data : data[j].Project = 1}}) = 2
    /\ \E month1, year \in results.results :
          /\ month1.Type = "Top" /\ month1.Month = 1 /\ month1.N = 3
          /\ year.Type = "Top" /\ year.Month = 0 /\ year.N = 3
          /\ Len(month1.Details) = 2 /\ Len(year.Details) = 2
          /\ month1.Details = <<2, 1>>
          /\ year.Details = <<1, 2>>

\* Lists of entities with equal sums are in the order of the aggregation
\* (the order of the ids).
TiesInOrder(ids, Sum(_)) ==
    \A k \in 1..(Len(ids) - 1) :
        Sum(ids[k]) = Sum(ids[k + 1]) => ids[k] < ids[k + 1]

\* C19: in every Top and Bottom list, entities with equal summed metric
\* are in their aggregation order, and the tied entities that make the cut
\* at position N are the first of them in that order.
C19_TiesInAggregationOrder ==
    /\ Ranked3 =>
          \A rho \in results.results :
              LET Sum(e) == SumCol(Where(Window3(rho), "Project", e), "CMA")
              IN  /\ TiesInOrder(rho.Details, Sum)
                  /\ \A e \in Unique(Window3(rho), "Project") :
                        (/\ Len(rho.Details) > 0
                         /\ e \notin {rho.Details[k] : k \in DOMAIN rho.Details}
                         /\ Sum(e) = Sum(rho.Details[Len(rho.Details)]))
                            => rho.Details[Len(rho.Details)] < e
    /\ Ranked4 =>
          \A rho \in results :
              LET Sum(e) == SumCol(Where(Window4(rho), "Task", e), "Cost")
                  ids == [k \in DOMAIN rho.top_tasks |-> rho.top_tasks[k].Task]
              IN  /\ TiesInOrder(ids, Sum)
                  /\ \A e \in Unique(Window4(rho), "Task") :
                        (/\ Len(ids) > 0
                         /\ e \notin {ids[k] : k \in DOMAIN ids}
                         /\ Sum(e) = Sum(ids[Len(ids)]))
                            => ids[Len(ids)] < e

(***************************************************************************)
(* detect_outliers_iqr on the rows of one partition (Prompt5.py)           *)
(***************************************************************************)
MaxValues == 6

\* Values of the metric of the rows of the partition.
MetricValues == {1, 2, 3, 4, 5, 100}

\* One more employee of the partition.
ReadPartitionRow ==
    /\ script = "detect_outliers_iqr"
    /\ status = "reading"
    /\ Len(data) < MaxValues
    /\ \E v \in MetricValues :
          data' = Append(data, [Employee |-> Len(data) + 1, BH |-> v])
    /\ UNCHANGED <<script, status, results>>

\* outliers = detect_outliers_iqr(filtered_data, metric), which the report
\* calls for partitions that are not empty.
DetectOutliers ==
    /\ script = "detect_outliers_iqr"
    /\ status = "reading"
    /\ data # <<>>
    /\ status' = "applied"
    /\ results' = detect_outliers_iqr(data, "BH", <<>>).outliers
    /\ UNCHANGED <<script, data>>

NextOutliers == ReadPartitionRow \/ DetectOutliers

SpecOutliers == Start({"detect_outliers_iqr"}) /\ [][NextOutliers]_vars

Detected == script = "detect_outliers_iqr" /\ status = "applied"

\* The k-th smallest of the values of the partition.
Smallest(k) ==
    CHOOSE v \in {data[i].BH : i \in DOMAIN data} :
        /\ Cardinality({i \in DOMAIN data : data[i].BH < v}) < k
        /\ Cardinality({i \in DOMAIN data : data[i].BH <= v}) >= k

\* Four times the quartile q (1 or 3) of the values, interpolated linearly
\* between the two values around position (n - 1) q / 4.
Quartile4(q) ==
    LET pos == (Len(data) - 1) * q
        lo == pos \div 4 + 1
    IN  IF pos % 4 = 0 THEN 4 * Smallest(lo)
        ELSE 4 * Smallest(lo) + (Smallest(lo + 1) - Smallest(lo)) * (pos % 4)

\* The rows with a value v < Q1 - 1.5 IQR (type "Low") or v > Q3 + 1.5 IQR
\* (type "High"), the comparison made in eighths.
Outside ==
    LET q1 == Quartile4(1)
        q3 == Quartile4(3)
    IN  [Low |-> {i \in DOMAIN data : 8 * data[i].BH < 5 * q1 - 3 * q3},
         High |-> {i \in DOMAIN data : 8 * data[i].BH > 5 * q3 - 3 * q1}]

\* C20: detect_outliers_iqr returns exactly the rows whose value is below
\* Q1 - 1.5 IQR, labelled Low, or above Q3 + 1.5 IQR, labelled High, and no
\* row whose value is equal to a bound or between the bounds; for the
\* values 1, 2, 3, 4, 5, 100 it returns the row of 100 alone, labelled High.
C20_IqrLabelling ==
    Detected =>
        /\ LET outside == Outside
           IN  /\ {<<results[k].Employee, results[k].Value, results[k].Type>> :
                      k \in DOMAIN results}
                   = {<<data[i].Employee, data[i].BH, "Low">> : i \in outside.Low}
                     \cup {<<data[i].Employee, data[i].BH, "High">> : i \in outside.High}
               /\ Len(results) = Cardinality(outside.Low \cup outside.High)
        /\ [i \in DOMAIN data |-> data[i].BH] = <<1, 2, 3, 4, 5, 100>> =>
               /\ Len(results) = 1
               /\ results[1].Employee = 6 /\ results[1].Value = 100
               /\ results[1].Type = "High"

\* The function applied to the values 1, 2, 3, 4, 5, 100.
C20_Witness ==
    /\ Detected
    /\ [i \in DOMAIN data |-> data[i].BH] = <<1, 2, 3, 4, 5, 100>>
    /\ Len(results) = 1 /\ results[1].Type = "High"

\* A partition with a Low outlier, and values equal to both bounds (1 next
\* to five values of 100: both quartiles are 100).
C20_WitnessLow ==
    /\ Detected
    /\ Len(data) = 6
    /\ Len(results) = 1 /\ results[1].Type = "Low" /\ results[1].Value = 1

(***************************************************************************)
(* Threshold-multiplier outliers (Prompt6.py): identify_outliers           *)
(***************************************************************************)
\* outlier_results = identify_outliers(data, threshold_multiplier=2)
threshold_multiplier == 2

\* The sum of the squares of column col over the rows of t.
RECURSIVE SumSquares(_, _)
SumSquares(t, col) ==
    IF t = <<>> THEN 0
    ELSE Head(t)[col] * Head(t)[col] + SumSquares(Tail(t), col)

\* Series.mean() of a column that is not empty.
Mean6(t) == Num(SumCol(t, "BH"), Len(t))

\* Series.std(ddof=0), the population deviation, in the place of
\* Series.std().
StdSquared6_Population(t) ==
    LET n == Len(t)
    IN  Num(n * SumSquares(t, "BH") - SumCol(t, "BH") * SumCol(t, "BH"), n * n)

\* Series.std(): the sample standard deviation (ddof = 1), NaN for a single
\* observation.  The deviation is a square root; it is kept as its square,
\* the sample variance, which is an exact fraction.
StdSquared6(t) ==
    LET n == Len(t)
    IN  IF n = 1 THEN NaN
        ELSE Num(n * SumSquares(t, "BH") - SumCol(t, "BH") * SumCol(t, "BH"),
                 n * (n - 1))

\* value > task_mean + task_std: one deviation whatever the multiplier is.
AboveThreshold_OneDeviation(value, task_mean, std_squared, k) ==
    LET above == FSub(Num(value, 1), task_mean)
    IN  IF IsNull(std_squared) THEN FALSE
        ELSE /\ FLess(Num(0, 1), above)
             /\ FLess(std_squared, FMul(above, above))

\* value >= task_mean + k * task_std.
AboveThreshold_OrEqual(value, task_mean, std_squared, k) ==
    LET above == FSub(Num(value, 1), task_mean)
    IN  IF IsNull(std_squared) THEN FALSE
        ELSE /\ ~FLess(above, Num(0, 1))
             /\ ~FLess(FMul(above, above), FMul(Num(k * k, 1), std_squared))

\* value > task_mean + k * task_std for k >= 0, the deviation given by
\* its square: the value lies above the mean by more than k deviations.  A
\* comparison with a NaN threshold is False.
AboveThreshold(value, task_mean, std_squared, k) ==
    LET above == FSub(Num(value, 1), task_mean)
    IN  IF IsNull(std_squared) THEN FALSE
        ELSE /\ FLess(Num(0, 1), above)
             /\ FLess(FMul(Num(k * k, 1), std_squared), FMul(above, above))

\* One pass of the loop over the tasks of a group (lines 30-48): the
\* statistics of the rows of the task, one row per employee, and the rows
\* above the threshold.
TaskPass(task_data, k) ==
    LET task_mean == Mean6(task_data)
        task_std_squared == StdSquared6(task_data)
    IN  [n |-> Len(task_data),
         task_mean |-> task_mean,
         task_std_squared |-> task_std_squared,
         outliers |->
             SelectSeq(task_data, LAMBDA row :
                 AboveThreshold(row.BH, task_mean, task_std_squared, k))]

MaxObservations == 6

\* Billable hours of an employee on the task.
Observations == {1, 2, 3, 10}

\* One more employee of the task: a row of task_data.
ReadObservation ==
    /\ script = "Prompt6 task"
    /\ status = "reading"
    /\ Len(data) < MaxObservations
    /\ \E v \in Observations :
          data' = Append(data, [Employee |-> Len(data) + 1, BH |-> v])
    /\ UNCHANGED <<script, status, results>>

\* The pass of the loop on a task, which groupby gives at least one row.
RunTaskPass ==
    /\ script = "Prompt6 task"
    /\ status = "reading"
    /\ data # <<>>
    /\ status' = "applied"
    /\ results' = TaskPass(data, threshold_multiplier)
    /\ UNCHANGED <<script, data>>

NextTaskPass == ReadObservation \/ RunTaskPass

SpecTaskPass == Start({"Prompt6 task"}) /\ [][NextTaskPass]_vars

(***************************************************************************)
(* identify_outliers(data, threshold_multiplier) on an input file          *)
(***************************************************************************)
MaxRows6 == 4

\* Rows of an input file of one service line and year with one partition
\* of several employees, (role 1, month 1, task 1), and rows of another
\* role, another task and another month: (role, month, task, employee,
\* hours), employee 0 for an employee that no row read before has.
Rows6 ==
    { <<1, 1, 1, 0, 1>>, <<1, 1, 1, 0, 10>>,
      <<2, 1, 1, 0, 10>>, <<1, 1, 2, 0, 10>>, <<1, 2, 1, 1, 10>> }

\* The rows of a set in the order of their employees.
RECURSIVE SortByEmployee(_)
SortByEmployee(rows) ==
    IF rows = {} THEN <<>>
    ELSE LET first == CHOOSE r \in rows : \A other \in rows : r.Employee <= other.Employee
         IN  <<first>> \o SortByEmployee(rows \ {first})

\* data.groupby([... 'Task', 'Employee'])['Billable_Hours'].sum(): one row
\* for every key, with the month of the key (lines 19-21) or, for the
\* yearly analysis (lines 62-64), without it: month 0.
Aggregated6(t, monthly) ==
    { [Service |-> t[i].Service, Role |-> t[i].Role, Year |-> t[i].Year,
       Month |-> IF monthly THEN t[i].Month ELSE 0,
       Task |-> t[i].Task, Employee |-> t[i].Employee,
       BH |-> SumCol(SelectSeq(t, LAMBDA r :
                  /\ r.Service = t[i].Service /\ r.Role = t[i].Role
                  /\ r.Year = t[i].Year /\ (monthly => r.Month = t[i].Month)
                  /\ r.Task = t[i].Task /\ r.Employee = t[i].Employee), "BH")] :
        i \in DOMAIN t }

\* The rows of a group whatever their task is.
TaskData_WholeGroup(group_data, task) == SortByEmployee(group_data)

\* for task, task_data in group_data.groupby('Task'): the rows of one task,
\* in the order of the aggregation.
TaskData(group_data, task) ==
    SortByEmployee({r \in group_data : r.Task = task})

\* The tasks of a set in ascending order.
RECURSIVE SortTasks(_)
SortTasks(tasks) ==
    IF tasks = {} THEN <<>>
    ELSE LET first == CHOOSE x \in tasks : \A other \in tasks : x <= other
         IN  <<first>> \o SortTasks(tasks \ {first})

\* consolidated_summaries of a group: the outliers of its tasks, task after
\* task.
RECURSIVE Summaries6(_, _, _)
Summaries6(group_data, tasks, k) ==
    IF tasks = <<>> THEN <<>>
    ELSE LET pass == TaskPass(TaskData(group_data, Head(tasks)), k)
         IN  [i \in DOMAIN pass.outliers |->
                 [Employee |-> pass.outliers[i].Employee, Task |-> Head(tasks),
                  BH |-> pass.outliers[i].BH, TaskMean |-> pass.task_mean]]
             \o Summaries6(group_data, Tail(tasks), k)

\* identify_outliers(data, threshold_multiplier): the rows of results, one
\* for every (service line, role, year, month) and (service line, role,
\* year) group that has an outlier (month 0 is "Yearly"), and, next to them,
\* the statistics and the outliers of the pass of every task of every group.
identify_outliers(t, k) ==
    LET aggregated == Aggregated6(t, TRUE) \cup Aggregated6(t, FALSE)
        groups == {<<r.Service, r.Role, r.Year, r.Month>> : r \in aggregated}
        GroupData(g) ==
            {r \in aggregated :
                r.Service = g[1] /\ r.Role = g[2] /\ r.Year = g[3] /\ r.Month = g[4]}
        TasksOf(g) == {r.Task : r \in GroupData(g)}
        summaries ==
            { [Service |-> g[1], Role |-> g[2], Year |-> g[3], Month |-> g[4],
               summaries |-> Summaries6(GroupData(g), SortTasks(TasksOf(g)), k)] :
                g \in groups }
    IN  [threshold_multiplier |-> k,
         tasks |->
             UNION { { [Service |-> g[1], Role |-> g[2], Year |-> g[3],
                        Month |-> g[4], Task |-> task,
                        pass |-> TaskPass(TaskData(GroupData(g), task), k)] :
                          task \in TasksOf(g) } : g \in groups },
         results |-> {x \in summaries : x.summaries # <<>>}]

ReadExcel6 ==
    /\ script = "Prompt6"
    /\ status = "reading"
    /\ Len(data) < MaxRows6
    /\ \E r \in Rows6 :
          data' = Append(data,
                     [Service |-> 1, Role |-> r[1], Year |-> 2023, Month |-> r[2],
                      Task |-> r[3],
                      Employee |-> IF r[4] = 0 THEN Len(data) + 1 ELSE r[4],
                      BH |-> r[5]])
    /\ UNCHANGED <<script, status, results>>

\* identify_outliers(data, threshold_multiplier) with the multiplier 2 that
\* __main__ passes, or with 1, a multiplier another caller passes.
IdentifyOutliers ==
    /\ script = "Prompt6"
    /\ status = "reading"
    /\ status' = "saved"
    /\ \E k \in {1, threshold_multiplier} : results' = identify_outliers(data, k)
    /\ UNCHANGED <<script, data>>

NextThreshold == ReadExcel6 \/ IdentifyOutliers

(***************************************************************************)
(* Partitions of the two outlier reports                                   *)
(***************************************************************************)
NextPartitions == NextIqrPartitions \/ NextThreshold

SpecPartitions ==
    Start({"Prompt5 partitions", "Prompt6"}) /\ [][NextPartitions]_vars

Saved6 == script = "Prompt6" /\ status = "saved"

\* The rows of the input file that belong to the partition of p: the rows
\* with the keys among `keys` that p has, and with its month unless p is
\* of a whole year (month 0).
InputOf(p, keys) ==
    SelectSeq(data, LAMBDA r :
        /\ \A key \in keys : r[key] = p[key]
        /\ p.Month # 0 => r.Month = p.Month)

\* C23 (IQR): the rows and the outlier summary the report has for a
\* partition of year, month or whole year, service line and role are those
\* it has for the partition when the input file holds the rows of that
\* partition and no other row.
IqrPartitionAlone ==
    SavedPartitions5 =>
        \A p \in results.results :
            p \in analyze_iqr_outliers(InputOf(p, {"Year", "Service", "Role"})).results

\* C23 (threshold): the mean, the deviation and the flagged rows of a
\* partition of service line, role, period and task are those it has when
\* the input file holds the rows of that partition and no other row.
ThresholdPartitionAlone ==
    Saved6 =>
        \A p \in results.tasks :
            p \in identify_outliers(InputOf(p, {"Service", "Role", "Year", "Task"}),
                                    results.threshold_multiplier).tasks

\* C23: the statistics and the outliers reported for a partition depend on
\* the rows of that partition only; rows of other partitions in the input
\* do not change them.
C23_PartitionIndependence == IqrPartitionAlone /\ ThresholdPartitionAlone

\* An input file with a flagged employee in one partition and rows of
\* another partition.
C23_Witness ==
    /\ Saved6
    /\ \E p \in results.tasks :
          /\ p.pass.outliers # <<>>
          /\ Len(InputOf(p, {"Service", "Role", "Year", "Task"})) < Len(data)

\* The same for the IQR report.
C23_WitnessIqr ==
    /\ SavedPartitions5
    /\ \E p \in results.results :
          /\ p.outliers # <<>>
          /\ Len(InputOf(p, {"Year", "Service", "Role"})) < Len(data)

(***************************************************************************)
(* The task pass of identify_outliers: flags                               *)
(***************************************************************************)
TaskPassed == script = "Prompt6 task" /\ status = "applied"

\* The employees whose hours v exceed mean + k std of the n observations:
\* with S the sum and SS the sum of squares, n v - S > 0 and
\* (n v - S)^2 (n - 1) > k^2 n (n SS - S^2).
AboveMeanPlusKStd(k) ==
    LET n == Len(data)
        S == SumCol(data, "BH")
        SS == SumSquares(data, "BH")
    IN  {i \in DOMAIN data :
            /\ n * data[i].BH - S > 0
            /\ (n * data[i].BH - S) * (n * data[i].BH - S) * (n - 1)
                  > k * k * n * (n * SS - S * S)}

\* C21: in a partition of two or more employees, the employees flagged are
\* those whose aggregated billable hours are strictly greater than
\* mean + k std of the values of the partition; a value equal to the
\* threshold is not flagged and no value at or below the mean is flagged.
C21_FlaggedIffAboveThreshold ==
    (TaskPassed /\ Len(data) >= 2) =>
        /\ {results.outliers[j].Employee : j \in DOMAIN results.outliers}
             = AboveMeanPlusKStd(2)
        /\ Len(results.outliers) = Cardinality(AboveMeanPlusKStd(2))
        /\ \A j \in DOMAIN results.outliers :
              /\ results.outliers[j].BH = data[results.outliers[j].Employee].BH
              /\ Len(data) * results.outliers[j].BH > SumCol(data, "BH")

\* Five employees with 1 hour and a sixth with 10: the sixth is flagged.
C21_Witness ==
    /\ TaskPassed
    /\ [i \in DOMAIN data |-> data[i].BH] = <<1, 1, 1, 1, 1, 10>>
    /\ Len(results.outliers) = 1
    /\ results.outliers[1].Employee = 6

\* Employees with equal hours: the threshold is their value and nobody is
\* flagged.
C21_WitnessOnThreshold ==
    /\ TaskPassed
    /\ Len(data) >= 2
    /\ \A i \in DOMAIN data : data[i].BH = 3
    /\ results.task_std_squared = Num(0, 1)
    /\ results.outliers = <<>>

\* C22 as stated: with exactly one observation the standard deviation used
\* is 0 and the value is not flagged.
C22_SingleObservationStdZero ==
    (TaskPassed /\ Len(data) = 1) =>
        /\ results.task_std_squared = Num(0, 1)
        /\ results.outliers = <<>>

\* C22 amended: with exactly one observation the standard deviation used is
\* undefined (NaN), the comparison with the threshold is False and the value
\* is not flagged.
C22_SingleObservationNeverFlagged ==
    (TaskPassed /\ Len(data) = 1) =>
        /\ IsNull(results.task_std_squared)
        /\ results.task_mean = Num(data[1].BH, 1)
        /\ results.outliers = <<>>

\* The pass has run on a task of one employee with 10 hours.
C22_Witness ==
    /\ TaskPassed
    /\ Len(data) = 1 /\ data[1].BH = 10
    /\ results.n = 1
    /\ results.outliers = <<>>

\* C30: with k = 2 and the sample standard deviation a partition of five
\* or fewer employees has no flagged value.
C30_NoFlagUpToFive ==
    (TaskPassed /\ Len(data) <= 5) => results.outliers = <<>>

\* A partition of five employees of which one is far above the others is
\* not flagged, and a partition of six is.
C30_Witness ==
    /\ TaskPassed
    /\ \/ /\ [i \in DOMAIN data |-> data[i].BH] = <<1, 1, 1, 1, 10>>
          /\ results.outliers = <<>>
       \/ /\ Len(data) = 6
          /\ results.outliers # <<>>

(***************************************************************************)
(* analyze_iqr_outliers: the metric passes of a partition                  *)
(***************************************************************************)
\* The k-th smallest of the values of column `column` of the rows.
SmallestOf(rows, column, k) ==
    CHOOSE v \in {rows[i][column] : i \in DOMAIN rows} :
        /\ Cardinality({i \in DOMAIN rows : rows[i][column] < v}) < k
        /\ Cardinality({i \in DOMAIN rows : rows[i][column] <= v}) >= k

\* Four times the quartile q (1 or 3) of the column.
QuartileOf4(rows, column, q) ==
    LET pos == (Len(rows) - 1) * q
        lo == pos \div 4 + 1
    IN  IF pos % 4 = 0 THEN 4 * SmallestOf(rows, column, lo)
        ELSE 4 * SmallestOf(rows, column, lo)
             + (SmallestOf(rows, column, lo + 1) - SmallestOf(rows, column, lo))
               * (pos % 4)

\* What the values of one column alone say of the rows: (employee, value,
\* "Low") below Q1 - 1.5 IQR and (employee, value, "High") above
\* Q3 + 1.5 IQR, the comparison made in eighths.
LabelsOf(rows, column) ==
    LET q1 == QuartileOf4(rows, column, 1)
        q3 == QuartileOf4(rows, column, 3)
    IN  {<<rows[i].Employee, rows[i][column], "Low">> :
            i \in {j \in DOMAIN rows : 8 * rows[j][column] < 5 * q1 - 3 * q3}}
        \cup
        {<<rows[i].Employee, rows[i][column], "High">> :
            i \in {j \in DOMAIN rows : 8 * rows[j][column] > 5 * q3 - 3 * q1}}

\* The (employee, value, label) reported in a summary for a metric.
ReportedFor(outliers, metric) ==
    {<<outliers[k].Employee, outliers[k].Value, outliers[k].Type>> :
        k \in {j \in DOMAIN outliers : outliers[j].Metric = metric}}

\* C27: in the summary of every partition the employees reported for a
\* metric, and the High or Low label of each, are those the values and the
\* bounds of that metric alone give, whatever the passes of the metrics
\* before it wrote in Outlier_Type.
C27_LabelOfTheMetricAlone ==
    SavedPartitions5 =>
        \A p \in results.results :
            \A m \in DOMAIN metrics :
                ReportedFor(p.outliers, metrics[m]) = LabelsOf(p.rows, metrics[m])

\* An employee reported High for the hours and Low for the revenue in the
\* same partition, another reported for the cost and not for the hours.
C27_Witness ==
    /\ SavedPartitions5
    /\ \E p \in results.results :
          \E e1, e2 \in {p.rows[i].Employee : i \in DOMAIN p.rows} :
              /\ e1 # e2
              /\ <<e1, 100, "High">> \in ReportedFor(p.outliers, "BH")
              /\ <<e1, -100, "Low">> \in ReportedFor(p.outliers, "Rev")
              /\ <<e2, 100, "High">> \in ReportedFor(p.outliers, "Cost")
              /\ \A x \in ReportedFor(p.outliers, "BH") : x[1] # e2

(***************************************************************************)
(* GUI wrapper (UI-Prototype.py): prompts and runs                         *)
(*                                                                         *)
(* Every prompt the user sends (button or Enter key) runs send_prompt,     *)
(* which starts run_assistant in a thread of its own.  data holds the      *)
(* globals assistant, thread (TRUE for an object, FALSE for None) and      *)
(* run_in_progress, status the position of every prompt in the code and    *)
(* results what create_and_poll_run has returned for it.  A step is what a *)
(* thread does between two places where another thread can run.            *)
(***************************************************************************)
MaxPrompts == 2

Prompts == 1..MaxPrompts

\* The state when the Tkinter loop starts: create_assistant() and
\* create_thread() have run, each with or without success; there is no
\* thread without an assistant.
InitGui ==
    /\ script = "UI-Prototype"
    /\ \E a \in BOOLEAN, t \in BOOLEAN :
          data = [assistant |-> a, thread |-> a /\ t, run_in_progress |-> FALSE]
    /\ status = [p \in Prompts |-> "idle"]
    /\ results = [p \in Prompts |-> "no call"]

\* send_prompt up to the test of run_in_progress (lines 467-473): an empty
\* prompt and a run in progress end it with a warning.
SendPrompt(p) ==
    /\ script = "UI-Prototype"
    /\ status[p] = "idle"
    /\ \E user_prompt \in {"", "prompt"} :
          status' = [status EXCEPT ![p] =
                        IF user_prompt = "" \/ data.run_in_progress
                        THEN "warned" ELSE "send_prompt"]
    /\ UNCHANGED <<script, data, results>>

\* The rest of send_prompt (lines 475-483): create_thread(), which leaves
\* the thread as it is without an assistant or when the request fails,
\* add_message_to_thread, and the start of the thread of run_assistant.
CreateThread(p) ==
    /\ script = "UI-Prototype"
    /\ status[p] = "send_prompt"
    /\ \E created \in BOOLEAN :
          data' = [data EXCEPT !.thread =
                      IF data.assistant /\ created THEN TRUE ELSE data.thread]
    /\ status' = [status EXCEPT ![p] = "run_assistant"]
    /\ UNCHANGED <<script, results>>

\* create_and_poll_run, lines 429-431: return None without a thread or an
\* assistant.
CheckThread(p) ==
    /\ script = "UI-Prototype"
    /\ status[p] = "run_assistant"
    /\ IF ~data.thread \/ ~data.assistant
       THEN /\ results' = [results EXCEPT ![p] = "None"]
            /\ status' = [status EXCEPT ![p] = "returned"]
       ELSE /\ status' = [status EXCEPT ![p] = "thread checked"]
            /\ UNCHANGED results
    /\ UNCHANGED <<script, data>>

\* Lines 432-434: return None when run_in_progress is set.
CheckRunInProgress(p) ==
    /\ script = "UI-Prototype"
    /\ status[p] = "thread checked"
    /\ IF data.run_in_progress
       THEN /\ results' = [results EXCEPT ![p] = "None"]
            /\ status' = [status EXCEPT ![p] = "returned"]
       ELSE /\ status' = [status EXCEPT ![p] = "flag checked"]
            /\ UNCHANGED results
    /\ UNCHANGED <<script, data>>

\* Lines 435-438: check_and_switch_thread(), run_in_progress = True and the
\* call of client.beta.threads.runs.create_and_poll.
SetRunInProgress(p) ==
    /\ script = "UI-Prototype"
    /\ status[p] = "flag checked"
    /\ data' = [data EXCEPT !.run_in_progress = TRUE]
    /\ status' = [status EXCEPT ![p] = "create_and_poll"]
    /\ UNCHANGED <<script, results>>

\* Lines 438-463: create_and_poll returns or raises; run_in_progress = False
\* and the return of (messages, usage) for a completed run, of (None, None)
\* for another status and for an exception.
CreateAndPoll(p) ==
    /\ script = "UI-Prototype"
    /\ status[p] = "create_and_poll"
    /\ \E run \in {"completed", "failed", "exception"} :
          results' = [results EXCEPT ![p] =
                         IF run = "completed" THEN "(messages, usage)"
                         ELSE "(None, None)"]
    /\ data' = [data EXCEPT !.run_in_progress = FALSE]
    /\ status' = [status EXCEPT ![p] = "returned"]
    /\ UNCHANGED script

\* run_assistant, lines 486-488: responses, usage = create_and_poll_run()
\* raises TypeError for None; responses are displayed when there are some.
RunAssistant(p) ==
    /\ script = "UI-Prototype"
    /\ status[p] = "returned"
    /\ status' = [status EXCEPT ![p] =
                      IF results[p] = "None" THEN "TypeError"
                      ELSE IF results[p] = "(messages, usage)" THEN "displayed"
                      ELSE "done"]
    /\ UNCHANGED <<script, data, results>>

NextGui ==
    \E p \in Prompts :
        \/ SendPrompt(p)
        \/ CreateThread(p)
        \/ CheckThread(p)
        \/ CheckRunInProgress(p)
        \/ SetRunInProgress(p)
        \/ CreateAndPoll(p)
        \/ RunAssistant(p)

SpecGui == InitGui /\ [][NextGui]_vars

\* C28: at most one thread is inside the create_and_poll call of
\* create_and_poll_run at a time.
C28_NoOverlappingRuns ==
    script = "UI-Prototype" =>
        Cardinality({p \in Prompts : status[p] = "create_and_poll"}) <= 1

\* C29: create_and_poll_run never returns a value that run_assistant
\* cannot unpack into (responses, usage), so that run_assistant does not
\* fail, and run_in_progress is False when no run that set it is still
\* inside create_and_poll.
C29_ReturnUnpacks ==
    script = "UI-Prototype" =>
        /\ \A p \in Prompts : results[p] # "None" /\ status[p] # "TypeError"
        /\ (\A p \in Prompts : status[p] # "create_and_poll") => ~data.run_in_progress

(***************************************************************************)
(* Service-and-role performance report: the previous bucket                *)
(***************************************************************************)
\* The rows of the input file of the service line, role and year of bucket
\* b and of month `month`.
InputRows7(b, month) ==
    SelectSeq(data, LAMBDA r :
        /\ r.Service = b.Service /\ r.Role = b.Role /\ r.Year = b.Year
        /\ r.Month = month)

\* The months before the month of bucket b for which the input file has a
\* row of its service line, role and year.
MonthsBefore7(b) ==
    {month \in 1..(b.Month - 1) : InputRows7(b, month) # <<>>}

MaxRowsRun2 == 2

\* The rows of the input file: a (year, month), a service line, and the
\* revenue, production costs and budget of the row.
RowsRun2 ==
    { [Year |-> period[1], Month |-> period[2], Service |-> s,
       CM |-> m.Rev - m.Cost, Rev |-> m.Rev, Cost |-> m.Cost,
       BCM |-> m.BCM, BRev |-> m.BRev] :
         period \in {<<2023, 1>>, <<2023, 12>>, <<2024, 1>>, <<2024, 2>>},
         s \in {"Audit ", "tax"},
         m \in { [Rev |-> 2, Cost |-> 1, BCM |-> 1, BRev |-> 2],
                 [Rev |-> 1, Cost |-> 2, BCM |-> 1, BRev |-> 1],
                 [Rev |-> 0, Cost |-> -1, BCM |-> 1, BRev |-> 1] } }

\* data['Year'].unique(): the years in the order in which the rows have
\* them first.
RECURSIVE UniqueYears(_, _)
UniqueYears(t, seen) ==
    IF t = <<>> THEN <<>>
    ELSE IF Head(t).Year \in seen THEN UniqueYears(Tail(t), seen)
    ELSE <<Head(t).Year>> \o UniqueYears(Tail(t), seen \cup {Head(t).Year})

\* The rows of a year and month.
MonthlyData(t, year, month) ==
    SelectSeq(t, LAMBDA r : r.Year = year /\ r.Month = month)

\* PrevMonthData that never looks at the year before.
PrevMonthData_SameYear(t, year, month) == MonthlyData(t, year, month - 1)

\* prev_month_data of lines 169-176: December of the year before for
\* January when the data has rows of the year before, the month before of
\* the same year otherwise.
PrevMonthData(t, year, month) ==
    IF month = 1 /\ (\E i \in DOMAIN t : t[i].Year = year - 1)
    THEN MonthlyData(t, year - 1, 12)
    ELSE MonthlyData(t, year, month - 1)

\* The calls of generate_bar_chart of the loops of lines 165-178, in their
\* order: for every year the months 1 to 12.
ChartCalls(t, build) ==
    LET years == UniqueYears(t, {})
    IN  [c \in 1..(12 * Len(years)) |->
            LET year == years[((c - 1) \div 12) + 1]
                month == ((c - 1) % 12) + 1
            IN  [Year |-> year, Month |-> month,
                 chart |-> generate_bar_chart(
                               MonthlyData(t, year, month),
                               [given |-> TRUE, rows |-> PrevMonthData(t, year, month)],
                               build)]]

\* What a run makes of the calls of generate_bar_chart in their order: the
\* calls up to the first that raises, the exception that ends
\* analyze_and_generate_charts and is printed by the except of __main__
\* (lines 214-229), and the rows of final_results that are saved, none
\* after an exception.
RunOfCalls(calls) ==
    LET raising == {c \in DOMAIN calls : calls[c].chart.raised}
        first == IF raising = {} THEN 0
                 ELSE CHOOSE c \in raising : \A other \in raising : c <= other
    IN  [raised |-> first # 0,
         calls |-> Len(calls),
         failed |-> IF first = 0 THEN <<>> ELSE <<calls[first].Year, calls[first].Month>>,
         charts |-> IF first = 0 THEN calls ELSE SubSeq(calls, 1, first - 1),
         printed |-> IF first = 0 THEN "Results with images saved" ELSE "An error occurred",
         final_results |->
             IF first = 0
             THEN [c \in DOMAIN calls |-> [Year |-> calls[c].Year, Month |-> calls[c].Month]]
             ELSE <<>>]

\* The run of __main__ after the file is read: analyze_and_generate_charts
\* on the rows of the file.
analyze_and_generate_charts(t, build) == RunOfCalls(ChartCalls(t, build))

ReadExcelRun2 ==
    /\ script = "Prompt2 run"
    /\ status = "reading"
    /\ Len(data) < MaxRowsRun2
    /\ \E r \in RowsRun2 : data' = Append(data, r)
    /\ UNCHANGED <<script, status, results>>

AnalyzeAndGenerateCharts ==
    /\ script = "Prompt2 run"
    /\ status = "reading"
    /\ data # <<>>
    /\ \E build \in Builds :
          /\ results' = analyze_and_generate_charts(data, build)
          /\ status' = IF results'.raised THEN "raised" ELSE "saved"
    /\ UNCHANGED <<script, data>>

NextChartRun == ReadExcelRun2 \/ AnalyzeAndGenerateCharts

SpecChartRun == Start({"Prompt2 run"}) /\ [][NextChartRun]_vars

RunEnded2 == script = "Prompt2 run" /\ status \in {"saved", "raised"}

\* The rows of the input file of a year and month.
InputOfPeriod(year, month) ==
    SelectSeq(data, LAMBDA r : r.Year = year /\ r.Month = month)

\* C25: the chart of month m of year y is compared with the rows of month
\* m - 1 of year y for m in 2..12; the chart of January with the rows of
\* December of year y - 1 when the data has rows of year y - 1, and
\* otherwise with no row, and then the change of every service line is 0.
C25_ComparisonPeriod ==
    RunEnded2 =>
        \A c \in DOMAIN results.charts :
            LET call == results.charts[c]
                compared == call.chart.prev_data.rows
            IN  IF call.Month >= 2
                THEN compared = InputOfPeriod(call.Year, call.Month - 1)
                ELSE IF \E i \in DOMAIN data : data[i].Year = call.Year - 1
                THEN compared = InputOfPeriod(call.Year - 1, 12)
                ELSE /\ compared = <<>>
                     /\ \A i \in DOMAIN call.chart.aggregated_data :
                           call.chart.aggregated_data[i].Change = Num(0, 1)

\* A run with a chart of January 2024 compared with rows of December 2023,
\* with a change that is not 0.
C25_Witness ==
    /\ RunEnded2
    /\ \E c \in DOMAIN results.charts :
          /\ results.charts[c].Year = 2024 /\ results.charts[c].Month = 1
          /\ results.charts[c].chart.prev_data.rows # <<>>
          /\ \E i \in DOMAIN results.charts[c].chart.aggregated_data :
                results.charts[c].chart.aggregated_data[i].Change # Num(0, 1)

\* A run with a chart of a January without a year before in the data.
C25_WitnessNoPrevious ==
    /\ RunEnded2
    /\ \E c \in DOMAIN results.charts :
          /\ results.charts[c].Month = 1
          /\ results.charts[c].chart.prev_data.rows = <<>>
          /\ \A i \in DOMAIN data : data[i].Year # results.charts[c].Year - 1
          /\ results.charts[c].chart.aggregated_data # <<>>

\* C24: when the computation of one group fails, the result rows of all
\* other groups are produced and the failure is recorded; the failure of a
\* group does not end the run.
C24_FailureIsolated ==
    (script = "Prompt2 run" /\ status = "raised") =>
        /\ Len(results.final_results) = results.calls - 1
        /\ \A i \in DOMAIN results.final_results :
              <<results.final_results[i].Year, results.final_results[i].Month>>
                  # results.failed
        /\ results.printed # "An error occurred"

====
